---- MODULE Spec2Model ----
(***************************************************************************)
(* The game-state reducer of the domino party game                         *)
(* (packages/shared/index.ts): a pure function (state, action) -> state.   *)
(* The single variable `state` holds the GameState value owned by the      *)
(* host; `nextId` is the transport's supply of fresh socket ids.           *)
(***************************************************************************)
EXTENDS Integers, Sequences, FiniteSets, TLC

VARIABLES state, nextId

vars == <<state, nextId>>

(***************************************************************************)
(* Program constants.                                                      *)
(***************************************************************************)
TARGET_SCORE == 200
PLAYERS_PER_TEAM == 2
TOTAL_PLAYERS == 4
TILES_PER_HAND == 7
MAX_PIP == 6

(***************************************************************************)
(* Bounds of the model.                                                    *)
(***************************************************************************)
\* socket ids the transport hands out in a full game (Spec)
MaxIds == 2
\* socket ids the transport hands out in the lobby study (SpecLobby)
MaxLobbyIds == 5
\* socket ids the transport hands out in the connection study (SpecSessions)
MaxSessionIds == 6
\* distinct reconnect secrets
NumSecrets == 1
\* rounds dealt per game
MaxRounds == 2
\* players known to the table when a round after the first is dealt
MaxMatchPlayers == 1
\* socket ids the transport hands out in a whole match (SpecMatch)
MatchIds == 1
\* rounds dealt in a whole match (SpecMatch)
MatchRounds == 5

(***************************************************************************)
(* Values.  null is written NULL; an absent boardEnds / lastRoundResult is *)
(* a record of the same shape so that it can be compared.                  *)
(***************************************************************************)
NULL == "null"
UNDEFINED == "undefined"
NoEnds == [left |-> -1, right |-> -1]
NoResult == [winner |-> NULL, reason |-> NULL, pointsAwarded |-> 0,
             pipCounts |-> [a |-> 0, b |-> 0], winnerId |-> NULL]

IdOf(i) == "p" \o ToString(i)
SecretOf(i) == "s" \o ToString(i)
AllIds == {IdOf(i) : i \in 1..(MaxLobbyIds + 1)}
Secrets == {SecretOf(i) : i \in 1..NumSecrets}
Teams == {"a", "b"}
Ends == {"left", "right"}

\* Sequence helpers (Array.prototype.filter / map / includes / indexOf).
Range(seq) == {seq[i] : i \in 1..Len(seq)}
Includes(seq, x) == \E i \in 1..Len(seq) : seq[i] = x
\* a faulty filter that removes nothing
WithoutNone(seq, x) == seq
Without(seq, x) == SelectSeq(seq, LAMBDA y : y # x)
\* a faulty map that renames nothing
RenameNone(seq, old, new) == seq
Rename(seq, old, new) == [i \in 1..Len(seq) |-> IF seq[i] = old THEN new ELSE seq[i]]
\* zero-based index of the first occurrence, -1 when absent
IndexOf(seq, x) ==
    IF Includes(seq, x) THEN (CHOOSE i \in 1..Len(seq) : seq[i] = x /\ \A j \in 1..(i-1) : seq[j] # x) - 1
    ELSE -1
\* Record<string, T> helpers: set a key, delete a key.
Put(f, k, v) == [x \in (DOMAIN f) \cup {k} |-> IF x = k THEN v ELSE f[x]]
Del(f, k) == [x \in (DOMAIN f) \ {k} |-> f[x]]
EmptyMap == [x \in {} |-> NULL]

(***************************************************************************)
(* Tiles.                                                                  *)
(***************************************************************************)
TileId(l, r) == ToString(l) \o "-" \o ToString(r)
Tile(l, r) == [id |-> TileId(l, r), left |-> l, right |-> r]

RECURSIVE TilesFrom(_, _)
TilesFrom(l, r) ==
    IF l > MAX_PIP THEN <<>>
    ELSE IF r > MAX_PIP THEN TilesFrom(l + 1, l + 1)
    ELSE <<Tile(l, r)>> \o TilesFrom(l, r + 1)

generateAllTiles == TilesFrom(0, 0)

RECURSIVE calculatePipCount(_)
calculatePipCount(hand) ==
    IF hand = <<>> THEN 0
    ELSE Head(hand).left + Head(hand).right + calculatePipCount(Tail(hand))

canPlayTile(tile, boardEnds) ==
    IF boardEnds = NoEnds THEN [left |-> TRUE, right |-> TRUE]
    ELSE [left  |-> (tile.left = boardEnds.left \/ tile.right = boardEnds.left),
          right |-> (tile.left = boardEnds.right \/ tile.right = boardEnds.right)]

\* a faulty filter that looks at the left end only
getPlayableTilesLeftOnly(hand, boardEnds) ==
    SelectSeq(hand, LAMBDA t : canPlayTile(t, boardEnds).left)

getPlayableTiles(hand, boardEnds) ==
    SelectSeq(hand, LAMBDA t : canPlayTile(t, boardEnds).left \/ canPlayTile(t, boardEnds).right)

getTeam(s, id) ==
    IF Includes(s.teams.a, id) THEN "a"
    ELSE IF Includes(s.teams.b, id) THEN "b"
    ELSE NULL

isBot(s, id) == id \in DOMAIN s.bots

BOT_NAMES == <<"Ramon", "Yolanda", "Miguelina", "Bienvenido">>

initialState ==
    [status |-> "lobby",
     players |-> <<>>,
     phase |-> "lobby",
     teams |-> [a |-> <<>>, b |-> <<>>],
     seats |-> EmptyMap,
     bots |-> EmptyMap,
     hands |-> EmptyMap,
     board |-> <<>>,
     boardEnds |-> NoEnds,
     centerIndex |-> 0,
     currentTurn |-> NULL,
     turnOrder |-> <<>>,
     consecutivePasses |-> 0,
     roundStarter |-> NULL,
     roundNumber |-> 0,
     scores |-> [a |-> 0, b |-> 0],
     lastRoundResult |-> NoResult,
     targetScore |-> TARGET_SCORE,
     sessions |-> EmptyMap]

(***************************************************************************)
(* The players map, in insertion order: a sequence of                      *)
(* [id, connected, isHost] (name and avatar are display data only).        *)
(***************************************************************************)
HasPlayer(s, id) == \E i \in 1..Len(s.players) : s.players[i].id = id
PlayerIndex(s, id) == CHOOSE i \in 1..Len(s.players) : s.players[i].id = id
Player(s, id) == s.players[PlayerIndex(s, id)]
PlayerIds(s) == {s.players[i].id : i \in 1..Len(s.players)}
\* a faulty count that takes every known player for connected
connectedCountAll(s) == Len(s.players)
connectedCount(s) == Cardinality({i \in 1..Len(s.players) : s.players[i].connected})
SetConnected(s, id, c) ==
    [i \in 1..Len(s.players) |->
        IF s.players[i].id = id THEN [s.players[i] EXCEPT !.connected = c] ELSE s.players[i]]

humansIn(s, team) == Len(SelectSeq(s.teams[team], LAMBDA id : id \notin DOMAIN s.bots))

(***************************************************************************)
(* Reducer helpers.                                                        *)
(***************************************************************************)
migratePlayer(s, oldId, newId, secret) ==
    LET oldPlayer == Player(s, oldId)
        newPlayers == Append(SelectSeq(s.players, LAMBDA p : p.id # oldId),
                             [oldPlayer EXCEPT !.id = newId, !.connected = TRUE])
        newTeams == [a |-> Rename(s.teams.a, oldId, newId),
                     b |-> Rename(s.teams.b, oldId, newId)]
        newSeats == IF oldId \in DOMAIN s.seats
                    THEN Del(Put(s.seats, newId, s.seats[oldId]), oldId)
                    ELSE s.seats
        newHands == IF oldId \in DOMAIN s.hands
                    THEN Del(Put(s.hands, newId, s.hands[oldId]), oldId)
                    ELSE s.hands
    IN [s EXCEPT !.players = newPlayers,
                 !.teams = newTeams,
                 !.seats = newSeats,
                 !.hands = newHands,
                 !.turnOrder = Rename(s.turnOrder, oldId, newId),
                 !.currentTurn = IF s.currentTurn = oldId THEN newId ELSE s.currentTurn,
                 !.roundStarter = IF s.roundStarter = oldId THEN newId ELSE s.roundStarter,
                 !.sessions = Put(s.sessions, secret, newId)]

assignSeatAndTeam(s, playerId) ==
    LET humansInA == humansIn(s, "a")
        humansInB == humansIn(s, "b")
        first == IF humansInA <= humansInB THEN "a" ELSE "b"
        team == IF first = "a" /\ humansInA >= PLAYERS_PER_TEAM THEN "b"
                ELSE IF first = "b" /\ humansInB >= PLAYERS_PER_TEAM THEN "a"
                ELSE first
    IN [s EXCEPT !.teams[team] = Append(s.teams[team], playerId)]

BotName(botIndex) ==
    IF botIndex + 1 <= Len(BOT_NAMES) THEN BOT_NAMES[botIndex + 1]
    ELSE "Bot " \o ToString(botIndex + 1)

RECURSIVE SkipUsedNames(_, _)
SkipUsedNames(usedNames, botIndex) ==
    IF BotName(botIndex) \in usedNames THEN SkipUsedNames(usedNames, botIndex + 1)
    ELSE botIndex

\* one `while (newTeams.x.length < PLAYERS_PER_TEAM)` loop of fillBotsAndAssignSeats
RECURSIVE FillTeam(_, _, _, _)
FillTeam(team, roster, newBots, botIndex) ==
    IF Len(roster) >= PLAYERS_PER_TEAM
    THEN [roster |-> roster, bots |-> newBots, botIndex |-> botIndex]
    ELSE LET usedNames == {newBots[b].name : b \in DOMAIN newBots}
             idx == SkipUsedNames(usedNames, botIndex)
             botId == "bot_" \o ToString(idx)
         IN FillTeam(team, Append(roster, botId),
                     Put(newBots, botId, [id |-> botId, name |-> BotName(idx), team |-> team, seat |-> -1]),
                     idx + 1)

\* seats[newTeams.a[0]] = 0; seats[newTeams.b[0]] = 1; ... (a later write to the same key wins)
AssignSeats(ta, tb) ==
    Put(Put(Put(Put(EmptyMap, ta[1], 0), tb[1], 1), ta[2], 2), tb[2], 3)

\* a faulty fill that leaves the bots of the last fill on the rosters
fillBotsOverOldBots(s) ==
    LET fa == FillTeam("a", s.teams.a, EmptyMap, 0)
        fb == FillTeam("b", s.teams.b, fa.bots, fa.botIndex)
        seats == AssignSeats(fa.roster, fb.roster)
        newBots == [b \in DOMAIN fb.bots |->
                      IF b \in DOMAIN seats THEN [fb.bots[b] EXCEPT !.seat = seats[b]] ELSE fb.bots[b]]
    IN [s EXCEPT !.teams = [a |-> fa.roster, b |-> fb.roster],
                 !.bots = newBots,
                 !.seats = seats]

fillBotsAndAssignSeats(s) ==
    LET stripA == SelectSeq(s.teams.a, LAMBDA id : id \notin DOMAIN s.bots)
        stripB == SelectSeq(s.teams.b, LAMBDA id : id \notin DOMAIN s.bots)
        fa == FillTeam("a", stripA, EmptyMap, 0)
        fb == FillTeam("b", stripB, fa.bots, fa.botIndex)
        seats == AssignSeats(fa.roster, fb.roster)
        newBots == [b \in DOMAIN fb.bots |->
                      IF b \in DOMAIN seats THEN [fb.bots[b] EXCEPT !.seat = seats[b]] ELSE fb.bots[b]]
    IN [s EXCEPT !.teams = [a |-> fa.roster, b |-> fb.roster],
                 !.bots = newBots,
                 !.seats = seats]

\* a faulty lookup that reads the seats counter-clockwise
seatToPlayerReversed(s, seat) ==
    IF \E id \in DOMAIN s.seats : s.seats[id] = TOTAL_PLAYERS - 1 - seat
    THEN CHOOSE id \in DOMAIN s.seats : s.seats[id] = TOTAL_PLAYERS - 1 - seat
    ELSE UNDEFINED

seatToPlayer(s, seat) ==
    IF \E id \in DOMAIN s.seats : s.seats[id] = seat
    THEN CHOOSE id \in DOMAIN s.seats : s.seats[id] = seat
    ELSE UNDEFINED

\* a faulty slice that stops one element early
SliceShort(seq, from, to) == SubSeq(seq, from + 1, to - 1)

Slice(seq, from, to) ==
    SubSeq(seq, from + 1, IF to <= Len(seq) THEN to ELSE Len(seq))

dealTiles(s, shuffledTiles) ==
    LET turnOrder == [i \in 1..TOTAL_PLAYERS |-> seatToPlayer(s, i - 1)]
        hands == [id \in Range(turnOrder) |->
                    LET i == CHOOSE k \in 1..TOTAL_PLAYERS :
                                 turnOrder[k] = id /\ \A j \in (k+1)..TOTAL_PLAYERS : turnOrder[j] # id
                    IN Slice(shuffledTiles, (i - 1) * TILES_PER_HAND, i * TILES_PER_HAND)]
    IN [s EXCEPT !.hands = hands, !.turnOrder = turnOrder]

HasHand(s, id) == id \in DOMAIN s.hands /\ Len(s.hands[id]) > 0
HoldsTile(s, id, tileId) == \E k \in 1..Len(s.hands[id]) : s.hands[id][k].id = tileId
\* the first element of the filtered sequence, NULL when there is none
FirstOf(seq) == IF seq = <<>> THEN NULL ELSE seq[1]

\* a faulty choice that always gives the first turn to seat 0
findFirstPlayerSeatZero(s) == s.turnOrder[1]

findFirstPlayer(s) ==
    LET mula == FirstOf(SelectSeq(s.turnOrder,
                                LAMBDA id : id \in DOMAIN s.hands /\ HoldsTile(s, id, "6-6")))
        team == getTeam(s, s.roundStarter)
        teammate == IF team = NULL THEN NULL
                    ELSE FirstOf(SelectSeq(s.teams[team],
                                         LAMBDA id : id # s.roundStarter /\ HasHand(s, id)))
        anyone == FirstOf(SelectSeq(s.turnOrder, LAMBDA id : HasHand(s, id)))
    IN IF s.roundNumber = 1 /\ mula # NULL THEN mula
       ELSE IF s.roundStarter # NULL /\ HasHand(s, s.roundStarter) THEN s.roundStarter
       ELSE IF s.roundStarter # NULL /\ teammate # NULL THEN teammate
       ELSE IF anyone # NULL THEN anyone
       ELSE s.turnOrder[1]

\* a faulty turn order that runs counter-clockwise
advanceTurnCounter(s) ==
    LET idx == IndexOf(s.turnOrder, s.currentTurn)
        nextIdx == (idx + Len(s.turnOrder) - 1) % Len(s.turnOrder)
    IN s.turnOrder[nextIdx + 1]

\* a faulty turn order without the wrap from the last seat to the first
advanceTurnNoWrap(s) ==
    LET idx == IndexOf(s.turnOrder, s.currentTurn)
    IN IF idx + 2 <= Len(s.turnOrder) THEN s.turnOrder[idx + 2] ELSE UNDEFINED

\* a faulty turn order that leaves the turn where it is
advanceTurnStays(s) == s.currentTurn

advanceTurn(s) ==
    LET idx == IndexOf(s.turnOrder, s.currentTurn)
        nextIdx == (idx + 1) % Len(s.turnOrder)
    IN s.turnOrder[nextIdx + 1]

RECURSIVE SumPips(_, _, _)
SumPips(s, ids, team) ==
    IF ids = {} THEN 0
    ELSE LET id == CHOOSE x \in ids : TRUE
         IN (IF getTeam(s, id) = team THEN calculatePipCount(s.hands[id]) ELSE 0)
            + SumPips(s, ids \ {id}, team)

\* a faulty loop that keeps the first member of the roster
LowestPipsFirst(s, roster, i, bestId, bestPips) == bestId

\* a faulty loop in which a later member with the same pips takes over
RECURSIVE LowestPipsLatest(_, _, _, _, _)
LowestPipsLatest(s, roster, i, bestId, bestPips) ==
    IF i > Len(roster) THEN bestId
    ELSE IF roster[i] \in DOMAIN s.hands
              /\ (bestPips = -1 \/ calculatePipCount(s.hands[roster[i]]) <= bestPips)
         THEN LowestPipsLatest(s, roster, i + 1, roster[i], calculatePipCount(s.hands[roster[i]]))
         ELSE LowestPipsLatest(s, roster, i + 1, bestId, bestPips)

\* the tranque loop of resolveRoundEnd over state.teams[winnerTeam]
RECURSIVE LowestPips(_, _, _, _, _)
LowestPips(s, roster, i, bestId, bestPips) ==
    IF i > Len(roster) THEN bestId
    ELSE IF roster[i] \in DOMAIN s.hands
              /\ (bestPips = -1 \/ calculatePipCount(s.hands[roster[i]]) < bestPips)
         THEN LowestPips(s, roster, i + 1, roster[i], calculatePipCount(s.hands[roster[i]]))
         ELSE LowestPips(s, roster, i + 1, bestId, bestPips)

\* a faulty comparison that lets the team with more pips win
TranqueWinnerInverted(pipCounts) ==
    IF pipCounts.a > pipCounts.b THEN [team |-> "a", points |-> pipCounts.a - pipCounts.b]
    ELSE IF pipCounts.b > pipCounts.a THEN [team |-> "b", points |-> pipCounts.b - pipCounts.a]
    ELSE [team |-> "a", points |-> 0]

TranqueWinner(pipCounts) ==
    IF pipCounts.a < pipCounts.b THEN [team |-> "a", points |-> pipCounts.b - pipCounts.a]
    ELSE IF pipCounts.b < pipCounts.a THEN [team |-> "b", points |-> pipCounts.a - pipCounts.b]
    ELSE [team |-> "a", points |-> 0]

\* a faulty award of the winning team's own remaining pips
DominoWinnerOwnPips(s, winnerId, pipCounts) ==
    [team |-> getTeam(s, winnerId), points |-> pipCounts[getTeam(s, winnerId)]]

DominoWinner(s, winnerId, pipCounts) ==
    LET winnerTeam == getTeam(s, winnerId)
        loserTeam == IF winnerTeam = "a" THEN "b" ELSE "a"
    IN [team |-> winnerTeam, points |-> pipCounts[loserTeam]]

\* a faulty threshold that needs the target to be exceeded
IsGameOverAbove(newScores, targetScore) ==
    newScores.a > targetScore \/ newScores.b > targetScore

IsGameOver(newScores, targetScore) ==
    newScores.a >= targetScore \/ newScores.b >= targetScore

\* a faulty resolution that adds the award to both cumulative scores
resolveRoundEndBothScore(s, reason, winnerId) ==
    LET pipCounts == [a |-> SumPips(s, DOMAIN s.hands, "a"), b |-> SumPips(s, DOMAIN s.hands, "b")]
        w == IF reason = "domino" THEN DominoWinner(s, winnerId, pipCounts) ELSE TranqueWinner(pipCounts)
        newScores == [a |-> s.scores.a + w.points, b |-> s.scores.b + w.points]
        roundResult == [winner |-> w.team, reason |-> reason, pointsAwarded |-> w.points,
                        pipCounts |-> pipCounts, winnerId |-> winnerId]
        isGameOver == IsGameOver(newScores, s.targetScore)
        roundStarterId == IF winnerId # NULL THEN winnerId
                          ELSE LowestPips(s, s.teams[w.team], 1, s.teams[w.team][1], -1)
    IN [s EXCEPT !.phase = IF isGameOver THEN "game_over" ELSE "round_end",
                 !.status = IF isGameOver THEN "ended" ELSE "playing",
                 !.scores = newScores,
                 !.lastRoundResult = roundResult,
                 !.currentTurn = NULL,
                 !.roundStarter = roundStarterId]

resolveRoundEnd(s, reason, winnerId) ==
    LET pipCounts == [a |-> SumPips(s, DOMAIN s.hands, "a"), b |-> SumPips(s, DOMAIN s.hands, "b")]
        w == IF reason = "domino" THEN DominoWinner(s, winnerId, pipCounts) ELSE TranqueWinner(pipCounts)
        newScores == [a |-> s.scores.a + (IF w.team = "a" THEN w.points ELSE 0),
                      b |-> s.scores.b + (IF w.team = "b" THEN w.points ELSE 0)]
        roundResult == [winner |-> w.team, reason |-> reason, pointsAwarded |-> w.points,
                        pipCounts |-> pipCounts, winnerId |-> winnerId]
        isGameOver == IsGameOver(newScores, s.targetScore)
        roundStarterId == IF winnerId # NULL THEN winnerId
                          ELSE LowestPips(s, s.teams[w.team], 1, s.teams[w.team][1], -1)
    IN [s EXCEPT !.phase = IF isGameOver THEN "game_over" ELSE "round_end",
                 !.status = IF isGameOver THEN "ended" ELSE "playing",
                 !.scores = newScores,
                 !.lastRoundResult = roundResult,
                 !.currentTurn = NULL,
                 !.roundStarter = roundStarterId]

(***************************************************************************)
(* gameReducer, one operator per case of the switch.                       *)
(***************************************************************************)
\* a faulty PLAYER_JOINED that puts a new human on a team in every phase
PlayerJoinedSeated(s, id, secret) ==
    IF HasPlayer(s, id)
    THEN [s EXCEPT !.players = SetConnected(s, id, TRUE)]
    ELSE IF secret # NULL /\ secret \in DOMAIN s.sessions /\ HasPlayer(s, s.sessions[secret])
    THEN migratePlayer(s, s.sessions[secret], id, secret)
    ELSE IF connectedCount(s) >= TOTAL_PLAYERS THEN s
    ELSE LET player == [id |-> id, isHost |-> (Len(s.players) = 0), connected |-> TRUE]
         IN assignSeatAndTeam([s EXCEPT !.players = Append(s.players, player),
                                        !.sessions = IF secret # NULL THEN Put(s.sessions, secret, id)
                                                     ELSE s.sessions], id)

PLAYER_JOINED(s, id, secret) ==
    IF HasPlayer(s, id)
    THEN [s EXCEPT !.players = SetConnected(s, id, TRUE)]
    ELSE IF secret # NULL /\ secret \in DOMAIN s.sessions /\ HasPlayer(s, s.sessions[secret])
    THEN migratePlayer(s, s.sessions[secret], id, secret)
    ELSE IF connectedCount(s) >= TOTAL_PLAYERS THEN s
    ELSE LET player == [id |-> id, isHost |-> (Len(s.players) = 0), connected |-> TRUE]
             newState == [s EXCEPT !.players = Append(s.players, player),
                                   !.sessions = IF secret # NULL THEN Put(s.sessions, secret, id)
                                                ELSE s.sessions]
         IN IF s.phase = "lobby" THEN assignSeatAndTeam(newState, id) ELSE newState

\* a faulty PLAYER_LEFT that deletes the player's entry
PlayerLeftRemoves(s, playerId) ==
    IF ~HasPlayer(s, playerId) THEN s
    ELSE [s EXCEPT !.players = SelectSeq(s.players, LAMBDA p : p.id # playerId)]

PLAYER_LEFT(s, playerId) ==
    IF ~HasPlayer(s, playerId) THEN s
    ELSE [s EXCEPT !.players = SetConnected(s, playerId, FALSE)]

CHOOSE_TEAM(s, playerId, targetTeam) ==
    IF playerId = NULL \/ s.phase # "lobby" THEN s
    ELSE IF humansIn(s, targetTeam) >= PLAYERS_PER_TEAM THEN s
    ELSE LET removed == [a |-> Without(s.teams.a, playerId), b |-> Without(s.teams.b, playerId)]
         IN [s EXCEPT !.teams = [removed EXCEPT ![targetTeam] = Append(removed[targetTeam], playerId)]]

\* a faulty START_GAME that does not ask for a connected human
StartGameEmptyTable(s, shuffledTiles) ==
    IF s.phase # "lobby" /\ s.phase # "round_end" THEN s
    ELSE LET dealt == dealTiles(fillBotsAndAssignSeats(s), shuffledTiles)
             roundNumber == IF s.phase = "lobby" THEN 1 ELSE s.roundNumber + 1
             newState == [dealt EXCEPT !.roundNumber = roundNumber,
                                       !.phase = "playing",
                                       !.status = "playing",
                                       !.board = <<>>,
                                       !.boardEnds = NoEnds,
                                       !.centerIndex = 0,
                                       !.consecutivePasses = 0,
                                       !.lastRoundResult = NoResult]
         IN [newState EXCEPT !.currentTurn = findFirstPlayer(newState)]

START_GAME(s, shuffledTiles) ==
    IF s.phase # "lobby" /\ s.phase # "round_end" THEN s
    ELSE IF connectedCount(s) = 0 THEN s
    ELSE LET dealt == dealTiles(fillBotsAndAssignSeats(s), shuffledTiles)
             roundNumber == IF s.phase = "lobby" THEN 1 ELSE s.roundNumber + 1
             newState == [dealt EXCEPT !.roundNumber = roundNumber,
                                       !.phase = "playing",
                                       !.status = "playing",
                                       !.board = <<>>,
                                       !.boardEnds = NoEnds,
                                       !.centerIndex = 0,
                                       !.consecutivePasses = 0,
                                       !.lastRoundResult = NoResult]
         IN [newState EXCEPT !.currentTurn = findFirstPlayer(newState)]

\* a faulty placement that never turns the tile round
PlacementAsHeld(tile, boardEnds, end) ==
    IF boardEnds = NoEnds
    THEN [boardTile |-> [tile |-> tile, flipped |-> FALSE],
          newBoardEnds |-> [left |-> tile.left, right |-> tile.right]]
    ELSE IF end = "left"
    THEN [boardTile |-> [tile |-> tile, flipped |-> FALSE],
          newBoardEnds |-> [boardEnds EXCEPT !.left =
                               IF tile.right = boardEnds.left THEN tile.left ELSE tile.right]]
    ELSE [boardTile |-> [tile |-> tile, flipped |-> FALSE],
          newBoardEnds |-> [boardEnds EXCEPT !.right =
                               IF tile.left = boardEnds.right THEN tile.right ELSE tile.left]]

\* orientation of the played tile and the new open ends
Placement(tile, boardEnds, end) ==
    IF boardEnds = NoEnds
    THEN [boardTile |-> [tile |-> tile, flipped |-> FALSE],
          newBoardEnds |-> [left |-> tile.left, right |-> tile.right]]
    ELSE IF end = "left"
    THEN IF tile.right = boardEnds.left
         THEN [boardTile |-> [tile |-> tile, flipped |-> FALSE],
               newBoardEnds |-> [boardEnds EXCEPT !.left = tile.left]]
         ELSE [boardTile |-> [tile |-> tile, flipped |-> TRUE],
               newBoardEnds |-> [boardEnds EXCEPT !.left = tile.right]]
    ELSE IF tile.left = boardEnds.right
         THEN [boardTile |-> [tile |-> tile, flipped |-> FALSE],
               newBoardEnds |-> [boardEnds EXCEPT !.right = tile.right]]
         ELSE [boardTile |-> [tile |-> tile, flipped |-> TRUE],
               newBoardEnds |-> [boardEnds EXCEPT !.right = tile.left]]

\* hand.findIndex((t) => t.id === tileId), one-based; 0 when absent
FindTile(hand, tileId) ==
    IF \E i \in 1..Len(hand) : hand[i].id = tileId
    THEN CHOOSE i \in 1..Len(hand) : hand[i].id = tileId /\ \A j \in 1..(i-1) : hand[j].id # tileId
    ELSE 0

\* a faulty splice that leaves the hand as it was
RemoveAtKeeps(seq, i) == seq

RemoveAt(seq, i) == SubSeq(seq, 1, i - 1) \o SubSeq(seq, i + 1, Len(seq))

\* a faulty opening rule that asks for the double-blank
OpeningWithBlank(s, tile) == ~(s.roundNumber = 1 /\ tile.id # "0-0")

\* a faulty opening rule that lets any tile open round 1
OpeningAlwaysAllowed(s, tile) == TRUE

\* the round-1 opening rule: the first tile of round 1 must be the double-six
OpeningAllowed(s, tile) == ~(s.roundNumber = 1 /\ tile.id # "6-6")

\* a faulty centre rule that shifts on every left play, the opening included
newCenterIndexEveryLeft(s, end) ==
    IF end = "left" THEN s.centerIndex + 1 ELSE s.centerIndex

\* the centre after a play: left prepends shift the first tile right; the very
\* first tile on the board is the centre (index 0)
newCenterIndex(s, end) ==
    IF end = "left" /\ Len(s.board) > 0 THEN s.centerIndex + 1 ELSE s.centerIndex

PLAY_TILE(s, playerId, tileId, end) ==
    IF s.phase # "playing" THEN s
    ELSE IF playerId = NULL \/ playerId # s.currentTurn THEN s
    ELSE IF playerId \notin DOMAIN s.hands THEN s
    ELSE LET hand == s.hands[playerId]
             tileIndex == FindTile(hand, tileId)
         IN IF tileIndex = 0 THEN s
            ELSE LET tile == hand[tileIndex]
                 IN IF ~canPlayTile(tile, s.boardEnds)[end] THEN s
                    ELSE IF s.boardEnds = NoEnds /\ ~OpeningAllowed(s, tile) THEN s
                    ELSE LET pl == Placement(tile, s.boardEnds, end)
                             newBoard == IF end = "left" THEN <<pl.boardTile>> \o s.board
                                         ELSE Append(s.board, pl.boardTile)
                             newHand == RemoveAt(hand, tileIndex)
                             newState == [s EXCEPT !.hands[playerId] = newHand,
                                                   !.board = newBoard,
                                                   !.boardEnds = pl.newBoardEnds,
                                                   !.centerIndex = newCenterIndex(s, end),
                                                   !.consecutivePasses = 0]
                         IN IF Len(newHand) = 0
                            THEN resolveRoundEnd(newState, "domino", playerId)
                            ELSE [newState EXCEPT !.currentTurn = advanceTurn(newState)]

\* a faulty threshold that needs a fifth pass
TranqueReachedLate(newPasses) == newPasses > TOTAL_PLAYERS

\* all four players passed consecutively
TranqueReached(newPasses) == newPasses >= TOTAL_PLAYERS

\* a faulty PASS that starts the count again with every pass
PassRestartsCount(s, playerId) ==
    IF s.phase # "playing" THEN s
    ELSE IF playerId = NULL \/ playerId # s.currentTurn THEN s
    ELSE IF playerId \notin DOMAIN s.hands THEN s
    ELSE IF Len(getPlayableTiles(s.hands[playerId], s.boardEnds)) > 0 THEN s
    ELSE [s EXCEPT !.consecutivePasses = 0, !.currentTurn = advanceTurn(s)]

\* a faulty PASS that moves the turn on without counting the pass
PassKeepsCount(s, playerId) ==
    IF s.phase # "playing" THEN s
    ELSE IF playerId = NULL \/ playerId # s.currentTurn THEN s
    ELSE IF playerId \notin DOMAIN s.hands THEN s
    ELSE IF Len(getPlayableTiles(s.hands[playerId], s.boardEnds)) > 0 THEN s
    ELSE [s EXCEPT !.currentTurn = advanceTurn(s)]

\* a faulty PASS that counts the pass before it checks the hand
PassCountsFirst(s, playerId) ==
    IF s.phase # "playing" THEN s
    ELSE IF playerId = NULL \/ playerId # s.currentTurn THEN s
    ELSE IF playerId \notin DOMAIN s.hands THEN s
    ELSE LET newPasses == s.consecutivePasses + 1
             counted == [s EXCEPT !.consecutivePasses = newPasses]
         IN IF Len(getPlayableTiles(s.hands[playerId], s.boardEnds)) > 0 THEN counted
            ELSE IF TranqueReached(newPasses)
            THEN resolveRoundEnd(counted, "tranque", NULL)
            ELSE [counted EXCEPT !.currentTurn = advanceTurn(s)]

PASS(s, playerId) ==
    IF s.phase # "playing" THEN s
    ELSE IF playerId = NULL \/ playerId # s.currentTurn THEN s
    ELSE IF playerId \notin DOMAIN s.hands THEN s
    ELSE IF Len(getPlayableTiles(s.hands[playerId], s.boardEnds)) > 0 THEN s
    ELSE LET newPasses == s.consecutivePasses + 1
         IN IF TranqueReached(newPasses)
            THEN resolveRoundEnd([s EXCEPT !.consecutivePasses = newPasses], "tranque", NULL)
            ELSE [s EXCEPT !.consecutivePasses = newPasses,
                           !.currentTurn = advanceTurn(s)]

\* a faulty NEW_ROUND that also deals while a round is being played
NewRoundWhilePlaying(s, shuffledTiles) ==
    IF s.phase # "round_end" /\ s.phase # "playing" THEN s
    ELSE LET cleared == [s EXCEPT !.board = <<>>,
                                  !.boardEnds = NoEnds,
                                  !.centerIndex = 0,
                                  !.consecutivePasses = 0,
                                  !.lastRoundResult = NoResult]
             dealt == dealTiles(cleared, shuffledTiles)
             newState == [dealt EXCEPT !.roundNumber = s.roundNumber + 1,
                                       !.phase = "playing",
                                       !.status = "playing"]
         IN [newState EXCEPT !.currentTurn = findFirstPlayer(newState)]

\* a faulty NEW_ROUND that also deals after the match is over
NewRoundAfterGameOver(s, shuffledTiles) ==
    IF s.phase # "round_end" /\ s.phase # "game_over" THEN s
    ELSE LET cleared == [s EXCEPT !.board = <<>>,
                                  !.boardEnds = NoEnds,
                                  !.centerIndex = 0,
                                  !.consecutivePasses = 0,
                                  !.lastRoundResult = NoResult]
             dealt == dealTiles(cleared, shuffledTiles)
             newState == [dealt EXCEPT !.roundNumber = s.roundNumber + 1,
                                       !.phase = "playing",
                                       !.status = "playing"]
         IN [newState EXCEPT !.currentTurn = findFirstPlayer(newState)]

\* a faulty NEW_ROUND that does not count the round
NewRoundSameNumber(s, shuffledTiles) ==
    IF s.phase # "round_end" THEN s
    ELSE LET cleared == [s EXCEPT !.board = <<>>,
                                  !.boardEnds = NoEnds,
                                  !.centerIndex = 0,
                                  !.consecutivePasses = 0,
                                  !.lastRoundResult = NoResult]
             dealt == dealTiles(cleared, shuffledTiles)
             newState == [dealt EXCEPT !.phase = "playing",
                                       !.status = "playing"]
         IN [newState EXCEPT !.currentTurn = findFirstPlayer(newState)]

\* a faulty NEW_ROUND that starts the round from a clean score sheet
NewRoundClearsScores(s, shuffledTiles) ==
    IF s.phase # "round_end" THEN s
    ELSE LET cleared == [s EXCEPT !.board = <<>>,
                                  !.boardEnds = NoEnds,
                                  !.centerIndex = 0,
                                  !.consecutivePasses = 0,
                                  !.scores = [a |-> 0, b |-> 0],
                                  !.lastRoundResult = NoResult]
             dealt == dealTiles(cleared, shuffledTiles)
             newState == [dealt EXCEPT !.roundNumber = s.roundNumber + 1,
                                       !.phase = "playing",
                                       !.status = "playing"]
         IN [newState EXCEPT !.currentTurn = findFirstPlayer(newState)]

NEW_ROUND(s, shuffledTiles) ==
    IF s.phase # "round_end" THEN s
    ELSE LET cleared == [s EXCEPT !.board = <<>>,
                                  !.boardEnds = NoEnds,
                                  !.centerIndex = 0,
                                  !.consecutivePasses = 0,
                                  !.lastRoundResult = NoResult]
             dealt == dealTiles(cleared, shuffledTiles)
             newState == [dealt EXCEPT !.roundNumber = s.roundNumber + 1,
                                       !.phase = "playing",
                                       !.status = "playing"]
         IN [newState EXCEPT !.currentTurn = findFirstPlayer(newState)]

\* a faulty loop that puts nobody on a team
AssignNone(s, players, i) == s

RECURSIVE AssignAll(_, _, _)
AssignAll(s, players, i) ==
    IF i > Len(players) THEN s
    ELSE AssignAll(assignSeatAndTeam(s, players[i].id), players, i + 1)

RESET_GAME(s) ==
    LET resetPlayers == SelectSeq(s.players, LAMBDA p : p.connected)
        kept == {resetPlayers[i].id : i \in 1..Len(resetPlayers)}
        resetSessions == [k \in {x \in DOMAIN s.sessions : s.sessions[x] \in kept} |-> s.sessions[k]]
        newState == [initialState EXCEPT !.players = resetPlayers, !.sessions = resetSessions]
    IN AssignAll(newState, resetPlayers, 1)

(***************************************************************************)
(* Inputs.  The caller of START_GAME / NEW_ROUND supplies                  *)
(* shuffleTiles(generateAllTiles()): a permutation of the 28 tiles.        *)
(***************************************************************************)
Deal(pairs) == [i \in 1..Len(pairs) |-> Tile(pairs[i][1], pairs[i][2])]

Shuffle1 ==
    Deal(<< <<1,1>>, <<0,6>>, <<0,0>>, <<0,2>>, <<1,5>>, <<0,1>>, <<0,4>>,
            <<1,2>>, <<2,6>>, <<5,6>>, <<4,6>>, <<6,6>>, <<4,4>>, <<3,6>>,
            <<5,5>>, <<1,6>>, <<3,5>>, <<4,5>>, <<0,5>>, <<1,4>>, <<2,4>>,
            <<3,3>>, <<1,3>>, <<2,2>>, <<3,4>>, <<0,3>>, <<2,3>>, <<2,5>> >>)

Shuffles == {Shuffle1}

\* the shuffle of the whole-match study: rounds with high scores
MatchShuffle1 ==
    Deal(<< <<4,5>>, <<2,6>>, <<1,5>>, <<2,5>>, <<4,4>>, <<0,4>>, <<5,5>>,
            <<4,6>>, <<1,2>>, <<3,5>>, <<2,3>>, <<3,4>>, <<1,4>>, <<1,1>>,
            <<3,3>>, <<1,3>>, <<5,6>>, <<0,1>>, <<0,6>>, <<6,6>>, <<0,5>>,
            <<3,6>>, <<2,2>>, <<2,4>>, <<0,2>>, <<1,6>>, <<0,0>>, <<0,3>> >>)

MatchShuffles == {MatchShuffle1}

\* the shuffle of the reconnection study: the human on seat 0 can win round 1
RejoinShuffle1 ==
    Deal(<< <<1,1>>, <<2,3>>, <<1,3>>, <<3,4>>, <<4,4>>, <<0,3>>, <<6,6>>,
            <<3,6>>, <<0,2>>, <<1,2>>, <<4,6>>, <<2,2>>, <<2,5>>, <<0,4>>,
            <<2,6>>, <<0,1>>, <<2,4>>, <<1,5>>, <<1,6>>, <<0,6>>, <<5,5>>,
            <<4,5>>, <<0,0>>, <<3,5>>, <<1,4>>, <<5,6>>, <<0,5>>, <<3,3>> >>)

RejoinShuffles == {RejoinShuffle1}

\* the shuffle of the blocked-round study: a round can end in a tranque whose
\* winning team holds the same number of pips in both hands
TieShuffle1 ==
    Deal(<< <<2,2>>, <<0,4>>, <<3,5>>, <<4,4>>, <<5,6>>, <<5,5>>, <<3,3>>,
            <<1,4>>, <<0,0>>, <<1,1>>, <<2,3>>, <<1,2>>, <<0,6>>, <<1,3>>,
            <<1,5>>, <<0,2>>, <<2,6>>, <<4,5>>, <<3,6>>, <<0,5>>, <<0,3>>,
            <<1,6>>, <<2,4>>, <<3,4>>, <<6,6>>, <<0,1>>, <<4,6>>, <<2,5>> >>)

TieShuffles == {TieShuffle1}

TileIds == {generateAllTiles[i].id : i \in 1..Len(generateAllTiles)}

\* who can dispatch a client action: a connected human (the transport stamps
\* the action with the socket id)
ConnectedHumans(s) == {s.players[i].id : i \in {j \in 1..Len(s.players) : s.players[j].connected}}
\* every acting id the reducer can be handed, and none (playerId absent)
Actors(s) == PlayerIds(s) \cup DOMAIN s.bots \cup {NULL}
\* the tiles a controller shows: the player's own hand
HandIds(s, p) == IF p \in DOMAIN s.hands THEN {s.hands[p][k].id : k \in 1..Len(s.hands[p])} ELSE {}

\* the team the game-over screens of host and client announce
GameOverWinner(s) == IF s.scores.a >= s.targetScore THEN "a" ELSE "b"

\* the faces of a board tile as the host draws it (DominoTileRN)
displayLeft(bt) == IF bt.flipped THEN bt.tile.right ELSE bt.tile.left
displayRight(bt) == IF bt.flipped THEN bt.tile.left ELSE bt.tile.right

(***************************************************************************)
(* The host's bot driver (GameScreen, "Bot turn logic"): the action it     *)
(* dispatches when the current turn is a bot's.                            *)
(***************************************************************************)
BotTile(s, botHand) ==
    LET playable == getPlayableTiles(botHand, s.boardEnds)
        mulaIdx == FindTile(botHand, "6-6")
    IN IF s.boardEnds = NoEnds /\ s.roundNumber = 1 /\ mulaIdx # 0 THEN botHand[mulaIdx]
       ELSE playable[1]

\* a faulty choice of end that never looks at the right end
BotEndAlwaysLeft(tile, boardEnds) == "left"

BotEnd(tile, boardEnds) ==
    LET playability == canPlayTile(tile, boardEnds)
    IN IF boardEnds = NoEnds THEN "left"
       ELSE IF playability.left /\ ~playability.right THEN "left"
       ELSE IF ~playability.left /\ playability.right THEN "right"
       ELSE "left"

BotDriverActive(s) ==
    /\ s.phase = "playing"
    /\ s.currentTurn # NULL
    /\ isBot(s, s.currentTurn)
    /\ s.currentTurn \in DOMAIN s.hands

BotDispatch(s) ==
    LET botId == s.currentTurn
        botHand == s.hands[botId]
    IN IF Len(getPlayableTiles(botHand, s.boardEnds)) > 0
       THEN LET tile == BotTile(s, botHand)
            IN PLAY_TILE(s, botId, tile.id, BotEnd(tile, s.boardEnds))
       ELSE PASS(s, botId)

(***************************************************************************)
(* Actions: one per action type dispatched to the reducer.                 *)
(***************************************************************************)
Init ==
    /\ state = initialState
    /\ nextId = 1

\* a new TCP connection: the transport generates a socket id never seen before
JoinFresh(maxIds) ==
    /\ nextId <= maxIds
    /\ \E secret \in Secrets \cup {NULL} :
           state' = PLAYER_JOINED(state, IdOf(nextId), secret)
    /\ nextId' = nextId + 1

\* PLAYER_JOINED for a socket id already in the players map
Rejoin ==
    /\ \E id \in PlayerIds(state), secret \in Secrets \cup {NULL} :
           state' = PLAYER_JOINED(state, id, secret)
    /\ UNCHANGED nextId

PlayerLeft ==
    /\ \E id \in PlayerIds(state) : state' = PLAYER_LEFT(state, id)
    /\ UNCHANGED nextId

ChooseTeam ==
    /\ \E p \in ConnectedHumans(state), team \in Teams : state' = CHOOSE_TEAM(state, p, team)
    /\ UNCHANGED nextId

\* a further round is dealt within the bounds of the model
RoundAllowed(s, maxRounds, maxPlayers) ==
    s.roundNumber < maxRounds /\ Len(s.players) <= maxPlayers

StartGame(shuffles, maxRounds, maxPlayers) ==
    /\ state.phase = "round_end" => RoundAllowed(state, maxRounds, maxPlayers)
    /\ \E sh \in shuffles : state' = START_GAME(state, sh)
    /\ UNCHANGED nextId

\* a human taps a tile of the own hand and an end
PlayTile ==
    /\ \E p \in ConnectedHumans(state) : \E tileId \in HandIds(state, p), end \in Ends :
           state' = PLAY_TILE(state, p, tileId, end)
    /\ UNCHANGED nextId

Pass ==
    /\ \E p \in ConnectedHumans(state) : state' = PASS(state, p)
    /\ UNCHANGED nextId

BotTurn ==
    /\ BotDriverActive(state)
    /\ state' = BotDispatch(state)
    /\ UNCHANGED nextId

NewRound(shuffles, maxRounds, maxPlayers) ==
    /\ RoundAllowed(state, maxRounds, maxPlayers)
    /\ \E sh \in shuffles : state' = NEW_ROUND(state, sh)
    /\ UNCHANGED nextId

ResetGame ==
    /\ state' = RESET_GAME(state)
    /\ UNCHANGED nextId

Next ==
    \/ JoinFresh(MaxIds)
    \/ Rejoin
    \/ PlayerLeft
    \/ ChooseTeam
    \/ StartGame(Shuffles, MaxRounds, MaxMatchPlayers)
    \/ PlayTile
    \/ Pass
    \/ BotTurn
    \/ NewRound(Shuffles, MaxRounds, MaxMatchPlayers)
    \/ ResetGame

Spec == Init /\ [][Next]_vars

\* the lobby with a full house of socket ids: joins, leaves, team choices,
\* resets and the start of the game; the bots play, the humans do not move
NextLobby ==
    \/ JoinFresh(MaxLobbyIds)
    \/ PlayerLeft
    \/ ChooseTeam
    \/ StartGame(Shuffles, MaxRounds, MaxMatchPlayers)
    \/ BotTurn
    \/ ResetGame

SpecLobby == Init /\ [][NextLobby]_vars

\* a whole match at a table of one human and three bots, played round after
\* round until a team reaches the target score
NextMatch ==
    \/ JoinFresh(MatchIds)
    \/ Rejoin
    \/ PlayerLeft
    \/ StartGame(MatchShuffles, MatchRounds, MatchIds)
    \/ PlayTile
    \/ Pass
    \/ BotTurn
    \/ NewRound(MatchShuffles, MatchRounds, MatchIds)
    \/ ResetGame

SpecMatch == Init /\ [][NextMatch]_vars

\* a table whose human can win the first round and come back under a new
\* socket id between the rounds
NextRejoin ==
    \/ JoinFresh(MaxIds)
    \/ Rejoin
    \/ PlayerLeft
    \/ StartGame(RejoinShuffles, MaxRounds, MaxMatchPlayers)
    \/ PlayTile
    \/ Pass
    \/ BotTurn
    \/ NewRound(RejoinShuffles, MaxRounds, MaxMatchPlayers)
    \/ ResetGame

SpecRejoin == Init /\ [][NextRejoin]_vars

\* phones connecting, dropping and coming back in the lobby, under the same
\* socket id or under a new one with the stored secret
NextSessions ==
    \/ JoinFresh(MaxSessionIds)
    \/ Rejoin
    \/ PlayerLeft
    \/ ResetGame

SpecSessions == Init /\ [][NextSessions]_vars

\* a table of one human and three bots whose rounds can end blocked with a
\* pip tie inside the winning team
NextTie ==
    \/ JoinFresh(MatchIds)
    \/ Rejoin
    \/ PlayerLeft
    \/ StartGame(TieShuffles, MaxRounds, MatchIds)
    \/ PlayTile
    \/ Pass
    \/ BotTurn
    \/ NewRound(TieShuffles, MaxRounds, MatchIds)
    \/ ResetGame

SpecTie == Init /\ [][NextTie]_vars

\* the same table with the bot driver's timer: a pending bot turn is
\* dispatched after the delay. This is weak fairness of BotTurn, WF_vars(BotTurn),
\* with the enabling condition written as the guard of the driver's effect
SpecTieFair == SpecTie /\ ([]<>~BotDriverActive(state) \/ []<><<BotTurn>>_vars)

\* the same table with every player taking the turn: while a round is being
\* played, the player whose turn it is (human or bot) again and again submits
\* an action the reducer accepts. This is weak fairness of the turn,
\* WF_vars(PlayTile \/ Pass \/ BotTurn), with the enabling condition written
\* as the phase of the micro-cycle
SpecTieTurns == SpecTie /\ ([]<>(state.phase # "playing") \/ []<><<PlayTile \/ Pass \/ BotTurn>>_vars)

(***************************************************************************)
(* Properties.                                                             *)
(***************************************************************************)
\* the places a tile id occupies: (owner, index) in the hands, index on the board
InHands(s, tileId) ==
    {pk \in UNION {{<<p, k>> : k \in 1..Len(s.hands[p])} : p \in DOMAIN s.hands} :
        s.hands[pk[1]][pk[2]].id = tileId}
OnBoard(s, tileId) == {k \in 1..Len(s.board) : s.board[k].tile.id = tileId}
Occurrences(s, tileId) == Cardinality(InHands(s, tileId)) + Cardinality(OnBoard(s, tileId))
RECURSIVE HandTotal(_, _)
HandTotal(s, ids) ==
    IF ids = {} THEN 0
    ELSE LET p == CHOOSE x \in ids : TRUE IN Len(s.hands[p]) + HandTotal(s, ids \ {p})

\* C1 - tile conservation: in every reachable state with phase = playing each
\* of the 28 tile ids occurs exactly once in the union of all hands and the
\* board (never in two hands, never twice on the board, never in a hand and on
\* the board, none missing), and the hands and the board hold nothing else.
C1_TileConservation ==
    state.phase = "playing" =>
        /\ \A tileId \in TileIds : Occurrences(state, tileId) = 1
        /\ HandTotal(state, DOMAIN state.hands) + Len(state.board) = Cardinality(TileIds)

\* a round under way after tiles were played and a player passed, the first
\* socket id gone and its session held by the second, which holds a hand
C1_Witness ==
    /\ state.phase = "playing"
    /\ Len(state.board) >= 5
    /\ state.consecutivePasses >= 1
    /\ ~HasPlayer(state, IdOf(1))
    /\ IdOf(2) \in DOMAIN state.hands
    /\ SecretOf(1) \in DOMAIN state.sessions /\ state.sessions[SecretOf(1)] = IdOf(2)

\* the tile of the canonical set with the given id
TileOf(tileId) == CHOOSE t \in Range(generateAllTiles) : t.id = tileId

\* the conditions under which a PLAY_TILE(tileId, end) by actor p is legal
PlayLegal(s, p, tileId, end) ==
    /\ s.phase = "playing"
    /\ p # NULL /\ p = s.currentTurn
    /\ p \in DOMAIN s.hands /\ HoldsTile(s, p, tileId)
    /\ canPlayTile(TileOf(tileId), s.boardEnds)[end]
    /\ (s.roundNumber = 1 /\ Len(s.board) = 0) => tileId = "6-6"

\* t is s with exactly the tile tileId moved from p's hand to the chosen end
\* of the board
TileMoved(s, t, p, tileId, end) ==
    /\ DOMAIN t.hands = DOMAIN s.hands
    /\ t.hands[p] = SelectSeq(s.hands[p], LAMBDA x : x.id # tileId)
    /\ Len(t.hands[p]) = Len(s.hands[p]) - 1
    /\ \A q \in DOMAIN s.hands \ {p} : t.hands[q] = s.hands[q]
    /\ Len(t.board) = Len(s.board) + 1
    /\ IF end = "left"
       THEN t.board[1].tile = TileOf(tileId) /\ Tail(t.board) = s.board
       ELSE t.board[Len(t.board)].tile = TileOf(tileId)
            /\ SubSeq(t.board, 1, Len(s.board)) = s.board

\* C2 - turn legality: a PLAY_TILE(tileId, end) by actor p changes the state
\* if and only if phase = playing, p = currentTurn, the tile is in p's hand,
\* canPlayTile reports the chosen end legal for the current boardEnds and, when
\* roundNumber = 1 and the board is empty, the tile is the 6-6; when accepted,
\* exactly that tile leaves p's hand and is placed at the chosen end of the
\* board; otherwise the state is returned unchanged.
C2_TurnLegality ==
    \A p \in Actors(state), tileId \in TileIds, end \in Ends :
        LET t == PLAY_TILE(state, p, tileId, end)
        IN IF PlayLegal(state, p, tileId, end)
           THEN t # state /\ TileMoved(state, t, p, tileId, end)
           ELSE t = state

\* a round under way with tiles on the board, where the player to move holds
\* a tile that fits an end and a tile that fits neither
C2_Witness ==
    /\ state.phase = "playing"
    /\ Len(state.board) >= 2
    /\ state.currentTurn \in DOMAIN state.hands
    /\ \E tileId \in HandIds(state, state.currentTurn) :
           PlayLegal(state, state.currentTurn, tileId, "right")
           /\ ~PlayLegal(state, state.currentTurn, tileId, "left")
    /\ \E tileId \in HandIds(state, state.currentTurn) : \A end \in Ends :
           ~PlayLegal(state, state.currentTurn, tileId, end)

\* no tile of the hand matches either open end of the board
NothingFits(hand, boardEnds) ==
    /\ boardEnds # NoEnds \/ hand = <<>>
    /\ \A k \in 1..Len(hand) :
           /\ hand[k].left \notin {boardEnds.left, boardEnds.right}
           /\ hand[k].right \notin {boardEnds.left, boardEnds.right}

\* C3 - pass legality: for the actor equal to currentTurn in phase playing,
\* PASS is accepted if and only if getPlayableTiles(hand, boardEnds) is empty
\* (no tile in the actor's hand matches either open end); a PASS while the
\* actor holds a playable tile, by a non-current actor, or outside playing
\* returns the state unchanged.
C3_PassLegality ==
    \A p \in Actors(state) :
        LET t == PASS(state, p)
            isCurrent == state.phase = "playing" /\ p # NULL /\ p = state.currentTurn
                         /\ p \in DOMAIN state.hands
        IN /\ ~isCurrent => t = state
           /\ isCurrent =>
                /\ (t # state) <=> (getPlayableTiles(state.hands[p], state.boardEnds) = <<>>)
                /\ (t # state) <=> NothingFits(state.hands[p], state.boardEnds)

\* a round under way where the player to move holds no tile that fits, after
\* two passes in a row, while another seated player does hold a tile that fits
C3_Witness ==
    /\ state.phase = "playing"
    /\ state.consecutivePasses >= 2
    /\ state.currentTurn \in DOMAIN state.hands
    /\ NothingFits(state.hands[state.currentTurn], state.boardEnds)
    /\ PASS(state, state.currentTurn) # state
    /\ \E q \in DOMAIN state.hands : ~NothingFits(state.hands[q], state.boardEnds)

\* C4 - team size bound: in every reachable state teams.a and teams.b each
\* hold at most 2 member ids (and at most 2 humans); the auto-assignment of a
\* new human never adds a human to a team that already holds 2 humans.
C4_TeamSizeBound ==
    \A team \in Teams :
        /\ Len(state.teams[team]) <= PLAYERS_PER_TEAM
        /\ humansIn(state, team) <= PLAYERS_PER_TEAM

\* C5 - seat invariant: whenever phase is not lobby, seats maps exactly the
\* members of teams.a and teams.b one-to-one onto {0,1,2,3} (every team member
\* has a seat and no seat is shared), team A's members on seats 0 and 2 and
\* team B's members on seats 1 and 3.
C5_SeatInvariant ==
    state.phase # "lobby" =>
        /\ DOMAIN state.seats = Range(state.teams.a) \cup Range(state.teams.b)
        /\ {state.seats[id] : id \in DOMAIN state.seats} = 0..(TOTAL_PLAYERS - 1)
        /\ \A id, other \in DOMAIN state.seats :
               state.seats[id] = state.seats[other] => id = other
        /\ \A id \in Range(state.teams.a) \cap DOMAIN state.seats : state.seats[id] \in {0, 2}
        /\ \A id \in Range(state.teams.b) \cap DOMAIN state.seats : state.seats[id] \in {1, 3}

\* the guard of a PASS by actor p holds
PassLegal(s, p) ==
    /\ s.phase = "playing"
    /\ p # NULL /\ p = s.currentTurn
    /\ p \in DOMAIN s.hands
    /\ NothingFits(s.hands[p], s.boardEnds)

\* a PLAYER_JOINED for (id, secret) is the join of a new human: the id is
\* not in the players map and the secret recovers no session
NewHuman(s, id, secret) ==
    /\ ~HasPlayer(s, id)
    /\ ~(secret # NULL /\ secret \in DOMAIN s.sessions /\ HasPlayer(s, s.sessions[secret]))

\* C6 - silent rejection is atomic: in every reachable state every action
\* that fails a guard (wrong phase for the action, actor not currentTurn or
\* absent, tile not in the actor's hand, chosen end does not match, non-6-6
\* opening in round 1, PASS with a playable tile, CHOOSE_TEAM into a team with
\* 2 humans, new-human join at capacity) returns a state equal to its input in
\* every field.
C6_SilentRejection ==
    /\ \A p \in Actors(state), tileId \in TileIds \cup {"7-7"}, end \in Ends :
           ~(tileId \in TileIds /\ PlayLegal(state, p, tileId, end))
               => PLAY_TILE(state, p, tileId, end) = state
    /\ \A p \in Actors(state) : ~PassLegal(state, p) => PASS(state, p) = state
    /\ \A p \in Actors(state), team \in Teams :
           (p = NULL \/ state.phase # "lobby" \/ humansIn(state, team) >= PLAYERS_PER_TEAM)
               => CHOOSE_TEAM(state, p, team) = state
    /\ \A id \in AllIds, secret \in Secrets \cup {NULL} :
           (NewHuman(state, id, secret) /\ connectedCount(state) >= TOTAL_PLAYERS)
               => PLAYER_JOINED(state, id, secret) = state
    /\ \A id \in AllIds \ PlayerIds(state) : PLAYER_LEFT(state, id) = state
    /\ \A sh \in Shuffles :
           /\ (state.phase \notin {"lobby", "round_end"} \/ connectedCount(state) = 0)
                  => START_GAME(state, sh) = state
           /\ state.phase # "round_end" => NEW_ROUND(state, sh) = state

\* the table is full (four connected humans), a further socket id is turned
\* away, the round is under way with tiles on the board, and the human to move
\* holds a tile that fits no end
C6_Witness ==
    /\ state.phase = "playing"
    /\ Len(state.board) >= 1
    /\ connectedCount(state) >= TOTAL_PLAYERS
    /\ nextId <= MaxLobbyIds
    /\ PLAYER_JOINED(state, IdOf(nextId), NULL) = state
    /\ state.currentTurn \in PlayerIds(state)
    /\ state.currentTurn \in DOMAIN state.hands
    /\ \E tileId \in HandIds(state, state.currentTurn) : \A end \in Ends :
           ~PlayLegal(state, state.currentTurn, tileId, end)
    /\ ~PassLegal(state, state.currentTurn)

\* the pips left in the hands of the players seated on seats of this parity
\* (team A sits on the even seats, team B on the odd ones)
RECURSIVE PipsOf(_, _)
PipsOf(s, ids) ==
    IF ids = {} THEN 0
    ELSE LET q == CHOOSE x \in ids : TRUE
         IN calculatePipCount(s.hands[q]) + PipsOf(s, ids \ {q})
SeatedOn(s, parity) == {q \in DOMAIN s.hands : q \in DOMAIN s.seats /\ s.seats[q] % 2 = parity}
TeamOfParity(parity) == IF parity = 0 THEN "a" ELSE "b"
OtherTeam(team) == IF team = "a" THEN "b" ELSE "a"
RoundOver(s) == s.phase \in {"round_end", "game_over"}

\* C7 - domino scoring: when an accepted PLAY_TILE empties the actor's hand,
\* the round resolves in that same transition with reason = domino, winnerId =
\* the actor, winner = the actor's team and pointsAwarded = the total pips
\* remaining in the two opponents' hands; exactly pointsAwarded is added to
\* the winning team's score and the other team's score is unchanged.
C7_DominoScoring ==
    /\ \A p \in Actors(state), tileId \in TileIds, end \in Ends :
           (PlayLegal(state, p, tileId, end) /\ Len(state.hands[p]) = 1) =>
               LET t == PLAY_TILE(state, p, tileId, end)
                   parity == state.seats[p] % 2
                   team == TeamOfParity(parity)
                   opponents == SeatedOn(state, 1 - parity)
                   points == PipsOf(state, opponents)
               IN /\ RoundOver(t)
                  /\ t.lastRoundResult.reason = "domino"
                  /\ t.lastRoundResult.winnerId = p
                  /\ t.lastRoundResult.winner = team /\ team = getTeam(state, p)
                  /\ Cardinality(opponents) = 2
                  /\ t.lastRoundResult.pointsAwarded = points
                  /\ t.scores[team] = state.scores[team] + points
                  /\ t.scores[OtherTeam(team)] = state.scores[OtherTeam(team)]
    \* after the round: the winner (kept as roundStarter, which follows a
    \* session migration) sits with an empty hand
    /\ state.lastRoundResult.reason = "domino" =>
           LET w == state.roundStarter
           IN /\ RoundOver(state)
              /\ w \in DOMAIN state.hands /\ state.hands[w] = <<>>
              /\ state.lastRoundResult.winner = TeamOfParity(state.seats[w] % 2)
              /\ state.lastRoundResult.pointsAwarded
                    = PipsOf(state, SeatedOn(state, 1 - (state.seats[w] % 2)))
              /\ state.scores[state.lastRoundResult.winner] >= state.lastRoundResult.pointsAwarded

\* the second round ended by a domino of team B that scored, team B having
\* scored in the first round as well
C7_Witness ==
    /\ state.phase = "round_end"
    /\ state.roundNumber = 2
    /\ state.lastRoundResult.reason = "domino"
    /\ state.lastRoundResult.winner = "b"
    /\ state.lastRoundResult.pointsAwarded > 0
    /\ state.scores.b > state.lastRoundResult.pointsAwarded

\* C8 - tranque scoring: when a round resolves as tranque, the team with
\* strictly fewer total remaining pips is the winner and is awarded exactly the
\* difference of the two teams' pip totals; when the totals are equal the
\* recorded winner is team A with pointsAwarded = 0 and both scores are
\* unchanged.
C8_TranqueScoring ==
    /\ \A p \in Actors(state) :
           (PassLegal(state, p) /\ RoundOver(PASS(state, p))) =>
               LET t == PASS(state, p)
                   pipsA == PipsOf(state, SeatedOn(state, 0))
                   pipsB == PipsOf(state, SeatedOn(state, 1))
                   res == t.lastRoundResult
               IN /\ res.reason = "tranque"
                  /\ pipsA < pipsB =>
                        /\ res.winner = "a" /\ res.pointsAwarded = pipsB - pipsA
                        /\ t.scores = [state.scores EXCEPT !.a = @ + (pipsB - pipsA)]
                  /\ pipsB < pipsA =>
                        /\ res.winner = "b" /\ res.pointsAwarded = pipsA - pipsB
                        /\ t.scores = [state.scores EXCEPT !.b = @ + (pipsA - pipsB)]
                  /\ pipsA = pipsB =>
                        /\ res.winner = "a" /\ res.pointsAwarded = 0
                        /\ t.scores = state.scores
    /\ state.lastRoundResult.reason = "tranque" =>
           LET pipsA == PipsOf(state, SeatedOn(state, 0))
               pipsB == PipsOf(state, SeatedOn(state, 1))
               res == state.lastRoundResult
           IN /\ RoundOver(state)
              /\ res.pipCounts = [a |-> pipsA, b |-> pipsB]
              /\ res.winner = (IF pipsB < pipsA THEN "b" ELSE "a")
              /\ res.pointsAwarded = (IF pipsB < pipsA THEN pipsA - pipsB ELSE pipsB - pipsA)

\* a round blocked with both teams holding the same pip total: team A is the
\* recorded winner, no points are awarded
C8_Witness ==
    /\ state.phase = "round_end"
    /\ state.lastRoundResult.reason = "tranque"
    /\ state.lastRoundResult.pipCounts.a = state.lastRoundResult.pipCounts.b
    /\ state.lastRoundResult.pipCounts.a > 0
    /\ state.lastRoundResult.winner = "a"
    /\ state.scores = [a |-> 0, b |-> 0]

\* the count of consecutive passes, but for the phase the fourth pass yields
PassCounting ==
    \* the count of passes in a row stays below 4 while the round is played
    /\ state.phase = "playing" => state.consecutivePasses \in 0..3
    \* an accepted PASS adds one; the fourth ends the round, the others do not
    /\ \A p \in Actors(state) :
           PassLegal(state, p) =>
               LET t == PASS(state, p)
               IN /\ t.consecutivePasses = state.consecutivePasses + 1
                  /\ IF t.consecutivePasses = 4
                     THEN t.lastRoundResult.reason = "tranque"
                     ELSE t.phase = "playing" /\ t.lastRoundResult = NoResult
    \* an accepted PLAY_TILE restarts the count
    /\ \A p \in Actors(state), tileId \in TileIds, end \in Ends :
           PlayLegal(state, p, tileId, end) =>
               PLAY_TILE(state, p, tileId, end).consecutivePasses = 0
    \* joins (session migration included) and leaves do not touch the count
    /\ \A id \in AllIds, secret \in Secrets \cup {NULL} :
           /\ PLAYER_JOINED(state, id, secret).consecutivePasses = state.consecutivePasses
           /\ PLAYER_LEFT(state, id).consecutivePasses = state.consecutivePasses
    \* a round is over by tranque exactly when the count stands at 4
    /\ RoundOver(state) =>
           (state.lastRoundResult.reason = "tranque" <=> state.consecutivePasses = 4)
    /\ state.lastRoundResult.reason = "tranque" => RoundOver(state)

\* the states a fourth pass in a row can lead to from the current state
FourthPassResults ==
    {PASS(state, p) : p \in {q \in Actors(state) :
                                PassLegal(state, q) /\ state.consecutivePasses = 3}}

\* C9 as claimed - tranque trigger: exactly 4 consecutive accepted PASS actions
\* with no accepted PLAY_TILE between them force phase to round_end with
\* reason = tranque; after 1, 2 or 3 consecutive passes the phase is still
\* playing, and any accepted play in between restarts the count.
C9_TranqueTriggerAsClaimed ==
    /\ PassCounting
    /\ \A t \in FourthPassResults : t.phase = "round_end"

\* C9 amended - tranque trigger: exactly 4 consecutive accepted PASS actions
\* with no accepted PLAY_TILE between them end the round with reason =
\* tranque: the phase becomes round_end, or game_over when the award brings a
\* team's score to targetScore; after 1, 2 or 3 consecutive passes the phase is
\* still playing, and any accepted play in between restarts the count.
C9_TranqueTrigger ==
    /\ PassCounting
    /\ \A t \in FourthPassResults :
           /\ t.phase \in {"round_end", "game_over"}
           /\ t.phase = "game_over" <=>
                  (t.scores.a >= t.targetScore \/ t.scores.b >= t.targetScore)

\* a match ended on the fourth pass in a row: the blocked round brought team B
\* to the target score
C9_Witness ==
    /\ state.phase = "game_over"
    /\ state.consecutivePasses = 4
    /\ state.lastRoundResult.reason = "tranque"
    /\ state.scores.b >= state.targetScore
    /\ state.scores.b - state.lastRoundResult.pointsAwarded < state.targetScore

\* C10 - a round that resolves as tranque is genuinely blocked: at the moment
\* of the fourth consecutive pass no seated player's hand contains a tile
\* matching either open board end.
C10_TranqueBlocked ==
    /\ \A p \in Actors(state) :
           (PassLegal(state, p) /\ state.consecutivePasses = 3) =>
               \A q \in DOMAIN state.seats :
                   q \in DOMAIN state.hands /\ NothingFits(state.hands[q], state.boardEnds)
    /\ state.lastRoundResult.reason = "tranque" =>
           /\ state.boardEnds # NoEnds
           /\ \A q \in DOMAIN state.seats :
                  /\ q \in DOMAIN state.hands
                  /\ NothingFits(state.hands[q], state.boardEnds)
                  /\ getPlayableTiles(state.hands[q], state.boardEnds) = <<>>

\* a blocked round won by team B, in which a human holds tiles and every
\* seated player still holds at least one tile
C10_Witness ==
    /\ state.phase = "round_end"
    /\ state.lastRoundResult.reason = "tranque"
    /\ state.lastRoundResult.winner = "b"
    /\ \A q \in DOMAIN state.seats : q \in DOMAIN state.hands /\ Len(state.hands[q]) >= 1
    /\ \E q \in PlayerIds(state) : q \in DOMAIN state.hands

\* the states in which a round is resolved by one accepted action in s: the
\* play of a last tile, or the fourth pass in a row
Resolutions(s) ==
    {PLAY_TILE(s, x[1], x[2], x[3]) :
        x \in {y \in Actors(s) \X TileIds \X Ends :
                  PlayLegal(s, y[1], y[2], y[3]) /\ Len(s.hands[y[1]]) = 1}}
    \cup {PASS(s, p) : p \in {q \in Actors(s) : PassLegal(s, q) /\ s.consecutivePasses = 3}}

\* s with the cumulative score of one team set to x
WithScore(s, team, x) == [s EXCEPT !.scores[team] = x]

\* C11 - game-over threshold: immediately after any round resolution, phase =
\* game_over if and only if scores.a >= targetScore or scores.b >= targetScore
\* (targetScore = 200; exactly 200 ends the game, 199 does not), otherwise
\* phase = round_end; consequently in every reachable state with phase playing
\* or round_end both cumulative scores are below 200.
C11_GameOverThreshold ==
    /\ state.targetScore = 200
    /\ \A t \in Resolutions(state) :
           t.phase = (IF t.scores.a >= 200 \/ t.scores.b >= 200 THEN "game_over" ELSE "round_end")
    \* the same resolution from a score that the award brings to exactly 200,
    \* and from one it brings to 199
    /\ \A t \in Resolutions(state) :
           LET w == t.lastRoundResult.winner
               pts == t.lastRoundResult.pointsAwarded
           IN pts > 0 =>
                /\ \A u \in Resolutions(WithScore(state, w, 200 - pts)) :
                       u.scores[w] = 200 /\ u.phase = "game_over" /\ u.status = "ended"
                /\ \A u \in Resolutions(WithScore(state, w, 199 - pts)) :
                       u.scores[w] = 199 /\ u.phase = "round_end"
                /\ Resolutions(WithScore(state, w, 200 - pts)) # {}
                /\ Resolutions(WithScore(state, w, 199 - pts)) # {}
    /\ state.phase \in {"lobby", "playing", "round_end"} =>
           state.scores.a < 200 /\ state.scores.b < 200
    /\ state.phase = "game_over" => (state.scores.a >= 200 \/ state.scores.b >= 200)

\* a match ended by a domino: the award of the last round took the winning
\* team from below the target score to the target score or beyond
C11_Witness ==
    /\ state.phase = "game_over"
    /\ state.lastRoundResult.reason = "domino"
    /\ state.roundNumber >= 2
    /\ LET w == state.lastRoundResult.winner
       IN /\ state.scores[w] >= state.targetScore
          /\ state.scores[w] - state.lastRoundResult.pointsAwarded < state.targetScore
          /\ state.scores[w] - state.lastRoundResult.pointsAwarded > 0

\* the socket ids not in the players map, as a new connection presents them
FreshIds(s) == AllIds \ PlayerIds(s)
\* the secret recovers the session of a known player
Recovers(s, secret) ==
    secret \in Secrets /\ secret \in DOMAIN s.sessions /\ HasPlayer(s, s.sessions[secret])
\* the positions of an id in a sequence
PositionsOf(seq, id) == {i \in 1..Len(seq) : seq[i] = id}
\* map t is map s with the key old replaced by the key new, values kept
KeyMoved(s, t, old, new) ==
    /\ DOMAIN t = IF old \in DOMAIN s THEN (DOMAIN s \ {old}) \cup {new} ELSE DOMAIN s
    /\ old \in DOMAIN s => t[new] = s[old]
    /\ \A k \in DOMAIN s \ {old} : t[k] = s[k]
\* sequence t is sequence s with old replaced by new at the same positions
SeatKept(s, t, old, new) ==
    /\ Len(t) = Len(s)
    /\ PositionsOf(t, new) = PositionsOf(s, old)
    /\ \A i \in 1..Len(s) : s[i] # old => t[i] = s[i]

\* C12 - session migration preserves the player's game position: after
\* PLAYER_JOINED with a secret recorded for oldId and a fresh id newId, newId
\* holds exactly the hand, team membership (same roster position), seat and
\* turnOrder position that oldId held; currentTurn and roundStarter become
\* newId if and only if they were oldId and are otherwise unchanged; board,
\* boardEnds, scores, phase, consecutivePasses and every other player's data
\* are unchanged.
C12_MigrationKeepsPosition ==
    \A newId \in FreshIds(state), secret \in Secrets :
        Recovers(state, secret) =>
            LET oldId == state.sessions[secret]
                t == PLAYER_JOINED(state, newId, secret)
            IN /\ KeyMoved(state.hands, t.hands, oldId, newId)
               /\ KeyMoved(state.seats, t.seats, oldId, newId)
               /\ \A team \in Teams : SeatKept(state.teams[team], t.teams[team], oldId, newId)
               /\ SeatKept(state.turnOrder, t.turnOrder, oldId, newId)
               /\ t.currentTurn = newId <=> state.currentTurn = oldId
               /\ state.currentTurn # oldId => t.currentTurn = state.currentTurn
               /\ t.roundStarter = newId <=> state.roundStarter = oldId
               /\ state.roundStarter # oldId => t.roundStarter = state.roundStarter
               /\ t.board = state.board
               /\ t.boardEnds = state.boardEnds
               /\ t.centerIndex = state.centerIndex
               /\ t.scores = state.scores
               /\ t.phase = state.phase /\ t.status = state.status
               /\ t.consecutivePasses = state.consecutivePasses
               /\ t.roundNumber = state.roundNumber
               /\ t.targetScore = state.targetScore
               /\ t.bots = state.bots
               \* the other players' entries are kept; the migrated entry is
               \* the old one under the new id, connected
               /\ {t.players[i] : i \in {j \in 1..Len(t.players) : t.players[j].id # newId}}
                     = {state.players[i] : i \in {j \in 1..Len(state.players) : state.players[j].id # oldId}}
               /\ Len(t.players) = Len(state.players)
               /\ HasPlayer(t, newId) /\ ~HasPlayer(t, oldId)
               /\ Player(t, newId) = [Player(state, oldId) EXCEPT !.id = newId, !.connected = TRUE]
               /\ t.sessions = Put(state.sessions, secret, newId)

\* a round under way in which the player to move, holding a hand already
\* played from, lost the connection and can come back under a fresh socket id
C12_Witness ==
    /\ state.phase = "playing"
    /\ Len(state.board) >= 3
    /\ nextId <= MaxIds
    /\ Recovers(state, SecretOf(1))
    /\ LET oldId == state.sessions[SecretOf(1)]
       IN /\ state.currentTurn = oldId
          /\ oldId \in DOMAIN state.hands /\ Len(state.hands[oldId]) \in 1..(TILES_PER_HAND - 1)
          /\ ~Player(state, oldId).connected
          /\ PLAYER_JOINED(state, IdOf(nextId), SecretOf(1)).currentTurn = IdOf(nextId)

\* the ids a state refers to, outside the result of the last round
ReferencedIds(s) ==
    PlayerIds(s) \cup Range(s.teams.a) \cup Range(s.teams.b) \cup DOMAIN s.seats
    \cup DOMAIN s.hands \cup Range(s.turnOrder) \cup {s.currentTurn, s.roundStarter}
    \cup {s.sessions[k] : k \in DOMAIN s.sessions}

\* C13 - session migration rewrites every reference: after a migration from
\* oldId to newId, in any phase, oldId no longer occurs anywhere in the state;
\* every field that held oldId now holds newId.
C13_MigrationRewritesAll ==
    \A newId \in FreshIds(state), secret \in Secrets :
        Recovers(state, secret) =>
            LET oldId == state.sessions[secret]
                t == PLAYER_JOINED(state, newId, secret)
            IN /\ oldId \notin ReferencedIds(t)
               /\ t.lastRoundResult.winnerId # oldId
               /\ state.lastRoundResult.winnerId = oldId => t.lastRoundResult.winnerId = newId

\* the ids holding the given seat
AtSeat(s, seat) == {id \in DOMAIN s.seats : s.seats[id] = seat}

\* C14 - game start: START_GAME dispatched in the lobby with at least one
\* connected human and a permutation of the 28 tiles yields phase = playing,
\* roundNumber = 1, an empty board with boardEnds absent, exactly four hands of
\* 7 tiles each dealt as contiguous slices of the shuffle in seat order
\* 0,1,2,3, and currentTurn equal to the seated ID whose hand contains the 6-6.
C14_GameStart ==
    (state.phase = "lobby" /\ connectedCount(state) >= 1) =>
        \A sh \in Shuffles \cup MatchShuffles :
            LET t == START_GAME(state, sh)
            IN /\ Range(sh) = Range(generateAllTiles) /\ Len(sh) = 28
               /\ t.phase = "playing"
               /\ t.roundNumber = 1
               /\ t.board = <<>> /\ t.boardEnds = NoEnds
               /\ Cardinality(DOMAIN t.hands) = 4
               /\ DOMAIN t.hands = DOMAIN t.seats
               /\ \A seat \in 0..3 :
                      /\ Cardinality(AtSeat(t, seat)) = 1
                      /\ \A id \in AtSeat(t, seat) :
                             /\ Len(t.hands[id]) = 7
                             /\ \A k \in 1..7 : t.hands[id][k] = sh[7 * seat + k]
               /\ t.currentTurn \in DOMAIN t.seats
               /\ HoldsTile(t, t.currentTurn, "6-6")
               /\ \A id \in DOMAIN t.hands : HoldsTile(t, id, "6-6") => id = t.currentTurn

\* the first round just dealt at a table of at least three humans: nothing is
\* played yet and the player to move is a human holding the 6-6
C14_Witness ==
    /\ state.phase = "playing"
    /\ state.roundNumber = 1
    /\ state.board = <<>>
    /\ Len(state.players) >= 3
    /\ state.currentTurn \in PlayerIds(state)
    /\ state.currentTurn \in DOMAIN state.hands
    /\ HoldsTile(state, state.currentTurn, "6-6")
    /\ Len(state.hands[state.currentTurn]) = 7

\* the states a new round is dealt into from s: NEW_ROUND, and START_GAME
\* when a human is connected
NextRounds(s) ==
    {NEW_ROUND(s, sh) : sh \in Shuffles \cup RejoinShuffles}
    \cup {START_GAME(s, sh) : sh \in {x \in Shuffles \cup RejoinShuffles : connectedCount(s) >= 1}}

\* C15 - winner leads the next round: in every round after the first
\* (roundNumber >= 2), the player given the first turn is the roundStarter
\* recorded when the previous round resolved (the domino winner, or the tranque
\* low-pip member of the winning team), also when that player's ID was migrated
\* between the rounds; the teammate / first-seated / turnOrder[0] fallbacks of
\* findFirstPlayer are never taken in a reachable state.
C15_WinnerLeads ==
    \* the resolution records the starter: the player who went out, or the
    \* member of the winning team holding the fewest pips
    /\ \A t \in Resolutions(state) :
           /\ t.lastRoundResult.reason = "domino" => t.roundStarter = state.currentTurn
           /\ t.lastRoundResult.reason = "tranque" =>
                  /\ Includes(t.teams[t.lastRoundResult.winner], t.roundStarter)
                  /\ t.roundStarter \in DOMAIN t.hands
                  /\ \A q \in Range(t.teams[t.lastRoundResult.winner]) \cap DOMAIN t.hands :
                         calculatePipCount(t.hands[t.roundStarter]) <= calculatePipCount(t.hands[q])
    \* between the rounds the starter is a seated id
    /\ state.phase = "round_end" =>
           /\ state.roundStarter # NULL
           /\ state.roundStarter \in DOMAIN state.seats
    \* the next round goes to the starter, who holds a dealt hand
    /\ state.phase = "round_end" =>
           \A t \in NextRounds(state) :
               /\ t.phase = "playing" /\ t.roundNumber >= 2
               /\ t.currentTurn = state.roundStarter
               /\ HasHand(t, state.roundStarter)
    \* the same after a migration of the starter between the rounds
    /\ state.phase = "round_end" =>
           \A newId \in FreshIds(state), secret \in Secrets :
               (Recovers(state, secret) /\ state.sessions[secret] = state.roundStarter) =>
                   \A t \in NextRounds(PLAYER_JOINED(state, newId, secret)) :
                       t.currentTurn = newId /\ HasHand(t, newId)
    \* a later round that nobody has played in yet is the starter's turn
    /\ (state.phase = "playing" /\ state.roundNumber >= 2 /\ state.board = <<>>) =>
           state.currentTurn = state.roundStarter /\ HasHand(state, state.roundStarter)

\* between two rounds the winner of the first came back under a new socket
\* id: the result still names the old id, the starter is the new id, and the
\* new id is given the first turn of the next round
C15_Witness ==
    /\ state.phase = "round_end"
    /\ state.lastRoundResult.reason = "domino"
    /\ state.lastRoundResult.winnerId = IdOf(1)
    /\ state.roundStarter = IdOf(2)
    /\ RoundAllowed(state, MaxRounds, MaxMatchPlayers)
    /\ NEW_ROUND(state, RejoinShuffle1).currentTurn = IdOf(2)
    /\ NEW_ROUND(state, RejoinShuffle1).roundNumber = 2

\* C16 - currentTurn invariant: currentTurn is present if and only if phase =
\* playing; whenever it is present it is one of the four IDs of turnOrder and
\* that player's hand is non-empty.
C16_CurrentTurn ==
    /\ state.currentTurn # NULL <=> state.phase = "playing"
    /\ state.currentTurn # NULL =>
           /\ Len(state.turnOrder) = 4
           /\ Includes(state.turnOrder, state.currentTurn)
           /\ state.currentTurn \in DOMAIN state.hands
           /\ Len(state.hands[state.currentTurn]) >= 1

\* late in a round, after a pass: the turn is with a bot on seat 3 that holds
\* its last tile, and the turn passes on to seat 0
C16_Witness ==
    /\ state.phase = "playing"
    /\ state.consecutivePasses >= 1
    /\ isBot(state, state.currentTurn)
    /\ state.turnOrder[4] = state.currentTurn
    /\ Len(state.hands[state.currentTurn]) = 1
    /\ BotDispatch(state).currentTurn = state.turnOrder[1]

\* C17 - turnOrder invariant: whenever phase is not lobby, turnOrder is a
\* sequence of exactly four distinct IDs, namely the IDs seated at 0,1,2,3 in
\* that order (turnOrder[i] has seat i), and within a round it changes only by
\* the renaming of a migrated ID.
C17_TurnOrder ==
    /\ [](state.phase # "lobby" =>
             /\ Len(state.turnOrder) = 4
             /\ Cardinality(Range(state.turnOrder)) = 4
             /\ \A i \in 1..4 :
                    /\ state.turnOrder[i] \in DOMAIN state.seats
                    /\ state.seats[state.turnOrder[i]] = i - 1
                    /\ AtSeat(state, i - 1) = {state.turnOrder[i]})
    /\ [][(state.phase # "lobby" /\ state'.phase # "lobby"
              /\ state'.roundNumber = state.roundNumber) =>
               \/ state'.turnOrder = state.turnOrder
               \/ \E newId \in FreshIds(state), secret \in Secrets :
                      /\ Recovers(state, secret)
                      /\ state' = PLAYER_JOINED(state, newId, secret)
                      /\ state'.turnOrder
                            = [i \in 1..4 |-> IF state.turnOrder[i] = state.sessions[secret]
                                              THEN newId ELSE state.turnOrder[i]]]_vars

\* the second round under way at a table whose human chose team B and came
\* back under a new socket id: the new id holds position 2 of turnOrder
C17_Witness ==
    /\ state.phase = "playing"
    /\ state.roundNumber = 2
    /\ Len(state.board) >= 1
    /\ ~HasPlayer(state, IdOf(1))
    /\ state.turnOrder[2] = IdOf(2)
    /\ state.seats[IdOf(2)] = 1

\* C18 - scores are monotone: between two RESET_GAME actions neither scores.a
\* nor scores.b ever decreases; they change only in a round-resolving
\* transition, which increases exactly one team's score by the non-negative
\* pointsAwarded and leaves the other unchanged.
C18_ScoresMonotone ==
    /\ [](/\ state.scores.a >= 0 /\ state.scores.b >= 0
          /\ \A t \in Resolutions(state) :
                 LET res == t.lastRoundResult
                 IN /\ res.winner \in Teams
                    /\ res.pointsAwarded >= 0
                    /\ t.scores[res.winner] = state.scores[res.winner] + res.pointsAwarded
                    /\ t.scores[OtherTeam(res.winner)] = state.scores[OtherTeam(res.winner)])
    /\ [][(state'.scores.a < state.scores.a \/ state'.scores.b < state.scores.b)
               => state' = RESET_GAME(state)]_vars
    /\ [][state'.scores # state.scores
               => (state' = RESET_GAME(state) \/ state' \in Resolutions(state))]_vars

\* the second round resolved with points for team A, team B having scored in
\* the first round: the award is added to A's score and B's score stands
C18_Witness ==
    /\ state.phase = "round_end"
    /\ state.roundNumber = 2
    /\ state.lastRoundResult.winner = "a"
    /\ state.lastRoundResult.pointsAwarded > 0
    /\ state.scores.a = state.lastRoundResult.pointsAwarded
    /\ state.scores.b > 0

\* the id seated next after id, clockwise: seat 0, 1, 2, 3 and round to 0
SeatAfter(s, id) == CHOOSE q \in DOMAIN s.seats : s.seats[q] = (s.seats[id] + 1) % 4

\* the states an accepted action of the player to move leads to in s without
\* ending the round
TurnMoves(s) ==
    {PLAY_TILE(s, x[1], x[2], x[3]) :
        x \in {y \in Actors(s) \X TileIds \X Ends :
                  PlayLegal(s, y[1], y[2], y[3]) /\ Len(s.hands[y[1]]) > 1}}
    \cup {PASS(s, p) : p \in {q \in Actors(s) : PassLegal(s, q) /\ s.consecutivePasses < 3}}

\* C19 - clockwise turn advancement: after an accepted PLAY_TILE that does not
\* empty the hand, or an accepted PASS that is not the fourth in a row,
\* currentTurn becomes the ID that follows the previous currentTurn in
\* turnOrder (wrapping from seat 3 to seat 0); during a round currentTurn
\* changes in no other way except by the renaming of a migrated ID.
C19_ClockwiseTurn ==
    /\ [](\A t \in TurnMoves(state) :
             /\ t.phase = "playing"
             /\ t.currentTurn = SeatAfter(state, state.currentTurn)
             /\ \E i \in 1..4 :
                    /\ state.turnOrder[i] = state.currentTurn
                    /\ t.currentTurn = state.turnOrder[(i % 4) + 1])
    /\ [][(state.phase = "playing" /\ state'.phase = "playing"
              /\ state'.currentTurn # state.currentTurn) =>
               \/ state' \in TurnMoves(state)
               \/ \E newId \in FreshIds(state), secret \in Secrets :
                      /\ Recovers(state, secret)
                      /\ state.sessions[secret] = state.currentTurn
                      /\ state' = PLAYER_JOINED(state, newId, secret)
                      /\ state'.currentTurn = newId]_vars

\* a human on seat 3 who holds no tile that fits passes, and the turn wraps
\* round to seat 0
C19_Witness ==
    /\ state.phase = "playing"
    /\ state.currentTurn \in PlayerIds(state)
    /\ state.turnOrder[4] = state.currentTurn
    /\ PassLegal(state, state.currentTurn)
    /\ state.consecutivePasses < 3
    /\ PASS(state, state.currentTurn).currentTurn = state.turnOrder[1]
    /\ PASS(state, state.currentTurn).consecutivePasses = state.consecutivePasses + 1

\* C20 - PLAYER_LEFT only marks the player disconnected: for a known player
\* it sets connected = false and leaves teams, seats, hands, board, turnOrder,
\* currentTurn, roundStarter, scores, phase and sessions unchanged (the seat is
\* not handed to a bot and the turn is not skipped); for an unknown ID the
\* state is unchanged.
C20_PlayerLeft ==
    \A id \in AllIds \cup DOMAIN state.bots \cup {NULL} :
        LET t == PLAYER_LEFT(state, id)
        IN IF id \in PlayerIds(state)
           THEN /\ t.teams = state.teams /\ t.seats = state.seats
                /\ t.hands = state.hands /\ t.board = state.board
                /\ t.boardEnds = state.boardEnds
                /\ t.turnOrder = state.turnOrder
                /\ t.currentTurn = state.currentTurn
                /\ t.roundStarter = state.roundStarter
                /\ t.scores = state.scores
                /\ t.phase = state.phase
                /\ t.sessions = state.sessions
                /\ t.bots = state.bots
                \* every other field as well
                /\ [t EXCEPT !.players = state.players] = state
                \* the players map: the same entries, this one disconnected
                /\ Len(t.players) = Len(state.players)
                /\ \A i \in 1..Len(state.players) :
                       /\ t.players[i].id = state.players[i].id
                       /\ t.players[i].isHost = state.players[i].isHost
                       /\ t.players[i].connected
                             = (state.players[i].id # id /\ state.players[i].connected)
           ELSE t = state

\* a round under way at a table of two humans: the one to move has lost the
\* connection, keeps seat and hand, and the turn stays where it is
C20_Witness ==
    /\ state.phase = "playing"
    /\ Len(state.players) = 2
    /\ Len(state.board) >= 2
    /\ state.currentTurn \in PlayerIds(state)
    /\ ~Player(state, state.currentTurn).connected
    /\ connectedCount(state) = 1
    /\ state.currentTurn \in DOMAIN state.seats
    /\ ~isBot(state, state.currentTurn)
    /\ HasHand(state, state.currentTurn)
    /\ PLAYER_LEFT(state, state.currentTurn) = state

\* the players whose entry says connected
ConnectedNow(s) == {id \in PlayerIds(s) : Player(s, id).connected}
\* the teams whose roster holds the id
TeamsOf(s, id) == {team \in Teams : Includes(s.teams[team], id)}

\* C21 - join capacity: a PLAYER_JOINED for an ID that is not a known player
\* and does not resume a recorded session is rejected (state unchanged)
\* whenever 4 humans are already connected; otherwise the player is added to
\* players as connected, is marked host if and only if the players map was
\* empty, and is put on a team only if phase = lobby.
C21_JoinCapacity ==
    \A id \in FreshIds(state), secret \in Secrets \cup {NULL} :
        ~Recovers(state, secret) =>
            LET t == PLAYER_JOINED(state, id, secret)
            IN IF Cardinality(ConnectedNow(state)) >= 4
               THEN t = state
               ELSE /\ Len(t.players) = Len(state.players) + 1
                    /\ SubSeq(t.players, 1, Len(state.players)) = state.players
                    /\ t.players[Len(t.players)].id = id
                    /\ t.players[Len(t.players)].connected
                    /\ t.players[Len(t.players)].isHost <=> (state.players = <<>>)
                    /\ IF state.phase = "lobby"
                       THEN /\ Cardinality(TeamsOf(t, id)) = 1
                            /\ \A team \in Teams :
                                   t.teams[team] = IF team \in TeamsOf(t, id)
                                                   THEN Append(state.teams[team], id)
                                                   ELSE state.teams[team]
                       ELSE t.teams = state.teams
                    /\ t.sessions = IF secret = NULL THEN state.sessions
                                    ELSE Put(state.sessions, secret, id)
                    /\ [t EXCEPT !.players = state.players, !.teams = state.teams,
                                 !.sessions = state.sessions] = state

\* a round under way with four humans connected, one of whom joined after the
\* start and is on no team; a further socket id is turned away
C21_Witness ==
    /\ state.phase = "playing"
    /\ Cardinality(ConnectedNow(state)) = 4
    /\ \E id \in ConnectedNow(state) : TeamsOf(state, id) = {} /\ ~Player(state, id).isHost
    /\ nextId <= MaxLobbyIds
    /\ PLAYER_JOINED(state, IdOf(nextId), SecretOf(1)) = state

\* the members of a roster that are not bots
HumansOn(s, team) == {i \in 1..Len(s.teams[team]) : s.teams[team][i] \notin DOMAIN s.bots}

\* C22 - CHOOSE_TEAM: in the lobby, when the target team holds fewer than 2
\* humans, the acting player ends up a member of the target team and of no
\* other team, and every other player's team membership is unchanged; when the
\* target team already holds 2 humans, or the phase is not lobby, or no actor
\* ID is supplied, the state is unchanged.
C22_ChooseTeam ==
    \A p \in Actors(state) \cup AllIds, team \in Teams :
        LET t == CHOOSE_TEAM(state, p, team)
        IN IF state.phase = "lobby" /\ p # NULL /\ Cardinality(HumansOn(state, team)) < 2
           THEN /\ TeamsOf(t, p) = {team}
                /\ Cardinality(PositionsOf(t.teams[team], p)) = 1
                /\ \A other \in Teams :
                       SelectSeq(t.teams[other], LAMBDA q : q # p)
                         = SelectSeq(state.teams[other], LAMBDA q : q # p)
                /\ [t EXCEPT !.teams = state.teams] = state
           ELSE t = state

\* a lobby of three humans in which the first moved over to team B: B holds
\* two humans and the third player's choice of B is turned down
C22_Witness ==
    /\ state.phase = "lobby"
    /\ state.teams.b = <<IdOf(2), IdOf(1)>>
    /\ state.teams.a = <<IdOf(3)>>
    /\ CHOOSE_TEAM(state, IdOf(3), "b") = state
    /\ CHOOSE_TEAM(state, IdOf(1), "a").teams = [a |-> <<IdOf(3), IdOf(1)>>, b |-> <<IdOf(2)>>]

\* C23 - RESET_GAME: from any phase it yields phase = lobby with scores 0-0,
\* roundNumber 0, no bots, no hands, empty board, no currentTurn and no
\* roundStarter; players is exactly the set of players that were connected,
\* sessions is exactly the secrets that mapped to those players, and each
\* preserved player is a member of exactly one team.
C23_ResetGame ==
    LET t == RESET_GAME(state)
    IN /\ t.phase = "lobby" /\ t.status = "lobby"
       /\ t.scores = [a |-> 0, b |-> 0]
       /\ t.roundNumber = 0
       /\ DOMAIN t.bots = {} /\ DOMAIN t.hands = {} /\ DOMAIN t.seats = {}
       /\ t.board = <<>> /\ t.boardEnds = NoEnds /\ t.centerIndex = 0
       /\ t.turnOrder = <<>> /\ t.consecutivePasses = 0
       /\ t.currentTurn = NULL /\ t.roundStarter = NULL
       /\ t.lastRoundResult = NoResult
       /\ t.targetScore = 200
       \* the connected players, with their entries
       /\ PlayerIds(t) = ConnectedNow(state)
       /\ Len(t.players) = Cardinality(ConnectedNow(state))
       /\ \A id \in PlayerIds(t) : Player(t, id) = Player(state, id)
       \* the secrets of the connected players
       /\ DOMAIN t.sessions = {k \in DOMAIN state.sessions : state.sessions[k] \in ConnectedNow(state)}
       /\ \A k \in DOMAIN t.sessions : t.sessions[k] = state.sessions[k]
       \* the rosters hold the preserved players, each once
       /\ \A id \in PlayerIds(t) :
              /\ Cardinality(TeamsOf(t, id)) = 1
              /\ \A team \in TeamsOf(t, id) : Cardinality(PositionsOf(t.teams[team], id)) = 1
       /\ Range(t.teams.a) \cup Range(t.teams.b) = PlayerIds(t)

\* the lobby after a reset that dropped the first player, who had left, and
\* the session it had recorded: the second player is alone, now on team A
C23_Witness ==
    /\ state.phase = "lobby"
    /\ nextId = 3
    /\ PlayerIds(state) = {IdOf(2)}
    /\ state.teams = [a |-> <<IdOf(2)>>, b |-> <<>>]
    /\ state.sessions = EmptyMap
    /\ state.roundNumber = 0
    /\ RESET_GAME(state) = state

\* every shuffle the model deals
AllShuffles == Shuffles \cup MatchShuffles \cup RejoinShuffles \cup TieShuffles

\* the results of every action in s that deals no round and is not a reset
NoDealResults(s) ==
    {PLAY_TILE(s, x[1], x[2], x[3]) : x \in Actors(s) \X TileIds \X Ends}
    \cup {PASS(s, p) : p \in Actors(s)}
    \cup {CHOOSE_TEAM(s, x[1], x[2]) : x \in Actors(s) \X Teams}
    \cup {PLAYER_JOINED(s, x[1], x[2]) : x \in AllIds \X (Secrets \cup {NULL})}
    \cup {PLAYER_LEFT(s, id) : id \in AllIds}

\* C24 - round numbering: roundNumber is 1 after START_GAME from the lobby
\* and increases by exactly 1 each time a round is started from round_end,
\* whether by NEW_ROUND or by START_GAME, and changes at no other time except
\* RESET_GAME; so in every reachable non-lobby state roundNumber equals the
\* number of rounds dealt since the last lobby, never double-incremented.
C24_RoundNumbering ==
    /\ [](/\ state.phase = "lobby" <=> state.roundNumber = 0
          /\ \A sh \in AllShuffles :
                 LET t == START_GAME(state, sh)
                     u == NEW_ROUND(state, sh)
                 IN /\ (state.phase = "lobby" /\ t # state) => t.roundNumber = 1
                    /\ (state.phase = "round_end" /\ t # state) =>
                           t.roundNumber = state.roundNumber + 1
                    /\ state.phase = "round_end" =>
                           u # state /\ u.roundNumber = state.roundNumber + 1
                    /\ state.phase \notin {"lobby", "round_end"} => t = state
                    /\ state.phase # "round_end" => u = state
          /\ \A t \in NoDealResults(state) : t.roundNumber = state.roundNumber)
    \* a step that deals a round counts it once; no other step but a reset
    \* changes the number
    /\ [][IF state'.phase = "playing" /\ state.phase # "playing"
          THEN state'.roundNumber = state.roundNumber + 1
          ELSE \/ state'.roundNumber = state.roundNumber
               \/ state' = RESET_GAME(state) /\ state'.roundNumber = 0]_vars

\* the fourth round of a match under way
C24_Witness ==
    /\ state.phase = "playing"
    /\ state.roundNumber = 4
    /\ Len(state.board) >= 1
    /\ state.scores.a + state.scores.b > 0

\* C25 - NEW_ROUND is accepted only in phase round_end; when accepted it deals
\* a fresh set of four 7-tile hands to the same seats, empties the board,
\* clears boardEnds, sets centerIndex and consecutivePasses to 0, clears
\* lastRoundResult and moves to playing, while leaving scores, teams, seats,
\* bots, players and sessions unchanged; in lobby, playing or game_over it
\* returns the state unchanged.
C25_NewRound ==
    \A sh \in AllShuffles :
        LET u == NEW_ROUND(state, sh)
        IN IF state.phase = "round_end"
           THEN /\ u.phase = "playing"
                /\ DOMAIN u.hands = DOMAIN state.seats
                /\ DOMAIN u.hands = DOMAIN state.hands
                /\ Cardinality(DOMAIN u.hands) = 4
                /\ \A id \in DOMAIN u.hands :
                       /\ Len(u.hands[id]) = 7
                       /\ \A k \in 1..7 : u.hands[id][k] = sh[7 * state.seats[id] + k]
                /\ u.board = <<>> /\ u.boardEnds = NoEnds
                /\ u.centerIndex = 0 /\ u.consecutivePasses = 0
                /\ u.lastRoundResult = NoResult
                /\ u.scores = state.scores /\ u.teams = state.teams
                /\ u.seats = state.seats /\ u.bots = state.bots
                /\ u.players = state.players /\ u.sessions = state.sessions
                /\ u.turnOrder = state.turnOrder
                /\ u.roundStarter = state.roundStarter
                /\ u.targetScore = state.targetScore
           ELSE u = state

\* the second round just dealt: nothing is played, every seat holds seven
\* tiles, and the score of the first round stands
C25_Witness ==
    /\ state.phase = "playing"
    /\ state.roundNumber = 2
    /\ state.board = <<>>
    /\ state.lastRoundResult = NoResult
    /\ state.scores.a + state.scores.b > 0
    /\ \A id \in DOMAIN state.seats : id \in DOMAIN state.hands /\ Len(state.hands[id]) = 7

\* C26 - START_GAME guard: START_GAME is accepted only when phase is lobby or
\* round_end and at least one player is connected; in phase playing or
\* game_over, or when no human is connected, it returns the state unchanged (no
\* bots created, nothing dealt).
C26_StartGameGuard ==
    \A sh \in AllShuffles :
        LET t == START_GAME(state, sh)
        IN IF state.phase \in {"lobby", "round_end"} /\ ConnectedNow(state) # {}
           THEN /\ t # state
                /\ t.phase = "playing"
                /\ Cardinality(DOMAIN t.hands) = 4
           ELSE /\ t = state
                /\ t.bots = state.bots /\ t.hands = state.hands

\* between two rounds the only human has left: START_GAME deals nothing
C26_Witness ==
    /\ state.phase = "round_end"
    /\ Len(state.players) = 1
    /\ ConnectedNow(state) = {}
    /\ state.roundNumber < MatchRounds
    /\ START_GAME(state, MatchShuffle1) = state

\* C27 - bot backfill: after every accepted START_GAME each team has exactly
\* 2 members, the number of bots equals 4 minus the number of humans on the
\* rosters, every bot is a member of the team and holds the seat recorded in
\* its bot entry, and bot IDs and bot names are pairwise distinct; while phase
\* = lobby the bots map is empty.
C27_BotBackfill ==
    /\ state.phase = "lobby" => DOMAIN state.bots = {}
    /\ \A sh \in AllShuffles :
           LET t == START_GAME(state, sh)
           IN t # state =>
                /\ Len(t.teams.a) = 2 /\ Len(t.teams.b) = 2
                /\ Cardinality(DOMAIN t.bots)
                      = 4 - (Cardinality(HumansOn(t, "a")) + Cardinality(HumansOn(t, "b")))
                /\ \A b \in DOMAIN t.bots :
                       /\ t.bots[b].id = b
                       /\ t.bots[b].team \in Teams
                       /\ Includes(t.teams[t.bots[b].team], b)
                       /\ b \in DOMAIN t.seats /\ t.seats[b] = t.bots[b].seat
                       /\ b \notin PlayerIds(t)
                /\ \A b, c \in DOMAIN t.bots : t.bots[b].name = t.bots[c].name => b = c

\* the results of START_GAME and NEW_ROUND in s
DealResults(s) ==
    {START_GAME(s, sh) : sh \in AllShuffles} \cup {NEW_ROUND(s, sh) : sh \in AllShuffles}

AcceptedPlays(s) ==
    {PLAY_TILE(s, x[1], x[2], x[3]) :
        x \in {y \in Actors(s) \X TileIds \X Ends : PlayLegal(s, y[1], y[2], y[3])}}
\* the states an accepted PASS leads to in s
AcceptedPasses(s) == {PASS(s, p) : p \in {q \in Actors(s) : PassLegal(s, q)}}

\* C29 - pass counter: in every reachable state consecutivePasses equals the
\* number of accepted PASS actions since the most recent accepted PLAY_TILE or
\* round start, whichever is later; it is 0 immediately after any accepted
\* PLAY_TILE, lies in 0..3 while phase = playing, and is 4 only in a state
\* resolved by tranque.
C29_PassCounter ==
    /\ [](/\ state.consecutivePasses \in 0..4
          /\ state.phase = "playing" => state.consecutivePasses \in 0..3
          /\ state.consecutivePasses = 4 =>
                 RoundOver(state) /\ state.lastRoundResult.reason = "tranque"
          \* a round starts at 0, a play restarts at 0, a pass adds one
          /\ \A t \in DealResults(state) : t # state => t.consecutivePasses = 0
          /\ \A t \in AcceptedPlays(state) : t.consecutivePasses = 0
          /\ \A t \in AcceptedPasses(state) :
                 t.consecutivePasses = state.consecutivePasses + 1
          \* nothing else counts
          /\ \A t \in NoDealResults(state) \ (AcceptedPlays(state) \cup AcceptedPasses(state)) :
                 t.consecutivePasses = state.consecutivePasses)
    /\ [][state'.consecutivePasses # state.consecutivePasses =>
               \/ state' \in AcceptedPasses(state)
                  /\ state'.consecutivePasses = state.consecutivePasses + 1
               \/ state'.consecutivePasses = 0
                  /\ \/ state' \in AcceptedPlays(state)
                     \/ state' \in DealResults(state)
                     \/ state' = RESET_GAME(state)]_vars

\* three passes in a row, and the human to move holds a tile that fits: the
\* play restarts the count
C29_Witness ==
    /\ state.phase = "playing"
    /\ state.consecutivePasses = 3
    /\ state.currentTurn \in PlayerIds(state)
    /\ ~PassLegal(state, state.currentTurn)
    /\ AcceptedPlays(state) # {}
    /\ \A t \in AcceptedPlays(state) : t.consecutivePasses = 0 /\ t.phase = "playing"

\* the tile the centre index points at (the source counts from 0)
CenterTile(s) == s.board[s.centerIndex + 1]
\* the accepted plays of s on one end
AcceptedPlaysOn(s, end) ==
    {PLAY_TILE(s, x[1], x[2], end) :
        x \in {y \in Actors(s) \X TileIds : PlayLegal(s, y[1], y[2], end)}}

\* C30 - centerIndex tracks the opening tile: whenever the board is non-empty,
\* 0 <= centerIndex < length(board) and board[centerIndex] is the first tile
\* played in the current round (the 6-6 in round 1), for every interleaving of
\* left-end and right-end plays, including an opening play submitted with
\* end = left.
C30_CenterIndex ==
    /\ [](/\ state.board = <<>> => state.centerIndex = 0
          /\ state.board # <<>> =>
                 /\ 0 <= state.centerIndex /\ state.centerIndex < Len(state.board)
                 /\ (state.roundNumber = 1 => CenterTile(state).tile.id = "6-6")
          \* the opening play becomes the centre, whichever end it names
          /\ \A end \in Ends : \A t \in AcceptedPlaysOn(state, end) :
                 state.board = <<>> =>
                     Len(t.board) = 1 /\ t.centerIndex = 0 /\ ~CenterTile(t).flipped
          \* every later play keeps the centre tile and lands at the named end
          /\ \A t \in AcceptedPlaysOn(state, "left") :
                 state.board # <<>> =>
                     /\ Tail(t.board) = state.board
                     /\ t.centerIndex = state.centerIndex + 1
                     /\ CenterTile(t) = CenterTile(state)
          /\ \A t \in AcceptedPlaysOn(state, "right") :
                 state.board # <<>> =>
                     /\ SubSeq(t.board, 1, Len(state.board)) = state.board
                     /\ t.centerIndex = state.centerIndex
                     /\ CenterTile(t) = CenterTile(state))
    \* within a round the centre tile is the one the round opened with
    /\ [][/\ (state.board = <<>> /\ state'.board # <<>>) =>
                 Len(state'.board) = 1 /\ state'.centerIndex = 0
          /\ (state.board # <<>> /\ state'.board # <<>>) =>
                 CenterTile(state') = CenterTile(state)]_vars

\* a second round opened with another tile than the 6-6, with plays on both
\* ends since, and both ends open to a further play
C30_Witness ==
    /\ state.phase = "playing"
    /\ state.roundNumber = 2
    /\ Len(state.board) >= 3
    /\ 0 < state.centerIndex /\ state.centerIndex < Len(state.board) - 1
    /\ CenterTile(state).tile.id # "6-6"
    /\ AcceptedPlaysOn(state, "left") # {}
    /\ AcceptedPlaysOn(state, "right") # {}

\* the positions of the roster whose member holds a hand
Holders(s, roster) == {k \in 1..Len(roster) : roster[k] \in DOMAIN s.hands}
\* the position of the member with the fewest pips, the earlier one on a tie
FewestPips(s, roster) ==
    CHOOSE k \in Holders(s, roster) :
        \A j \in Holders(s, roster) :
            \/ calculatePipCount(s.hands[roster[k]]) < calculatePipCount(s.hands[roster[j]])
            \/ /\ calculatePipCount(s.hands[roster[k]]) = calculatePipCount(s.hands[roster[j]])
               /\ k <= j
\* the members of the winning roster of a resolved round t that hold a hand
WinningHolders(t) == Holders(t, t.teams[t.lastRoundResult.winner])

\* C31 - next-round starter: a round resolved by domino sets roundStarter to
\* the player who emptied their hand; a round resolved by tranque sets
\* roundStarter to the member of the winning team whose hand has the fewest
\* pips, choosing the earlier member in roster order when both hold the same
\* pip count; in both cases roundStarter is one of the four seated IDs.
C31_NextStarter ==
    /\ \A t \in Resolutions(state) :
           /\ t.lastRoundResult.reason \in {"domino", "tranque"}
           /\ t.lastRoundResult.reason = "domino" =>
                  /\ t.roundStarter = state.currentTurn
                  /\ t.roundStarter = t.lastRoundResult.winnerId
                  /\ t.hands[t.roundStarter] = <<>>
           /\ t.lastRoundResult.reason = "tranque" =>
                  /\ WinningHolders(t) # {}
                  /\ t.roundStarter =
                         t.teams[t.lastRoundResult.winner][FewestPips(t, t.teams[t.lastRoundResult.winner])]
           /\ t.roundStarter \in DOMAIN t.seats
           /\ t.seats[t.roundStarter] \in 0..3
           /\ Cardinality(DOMAIN t.seats) = TOTAL_PLAYERS
    /\ RoundOver(state) =>
           /\ state.roundStarter \in DOMAIN state.seats
           /\ state.lastRoundResult.reason = "domino" =>
                  state.hands[state.roundStarter] = <<>>
           /\ state.lastRoundResult.reason = "tranque" =>
                  state.roundStarter =
                      state.teams[state.lastRoundResult.winner]
                                 [FewestPips(state, state.teams[state.lastRoundResult.winner])]

\* a blocked round whose winning team holds the same pips in both hands: the
\* first member of the roster leads the next round
C31_Witness ==
    /\ RoundOver(state)
    /\ state.lastRoundResult.reason = "tranque"
    /\ LET roster == state.teams[state.lastRoundResult.winner]
       IN /\ Holders(state, roster) = {1, 2}
          /\ calculatePipCount(state.hands[roster[1]]) = calculatePipCount(state.hands[roster[2]])
          /\ state.roundStarter = roster[1]
          /\ state.roundStarter \in DOMAIN state.seats

\* the ids fillBotsAndAssignSeats gives to bots
BotIds == {"bot_" \o ToString(k) : k \in 0..3}
\* it is a bot's turn in a round being played
BotToMove(s) == s.phase = "playing" /\ s.currentTurn # NULL /\ isBot(s, s.currentTurn)
\* the seat after the current one, clockwise
NextInOrder(s) == s.turnOrder[((IndexOf(s.turnOrder, s.currentTurn) + 1) % Len(s.turnOrder)) + 1]

\* C32 - bot driver progress: for every reachable state with phase = playing
\* and currentTurn a bot, the action the host's bot driver computes from that
\* state (the first playable tile of the bot's hand, or the 6-6 on the round-1
\* opening, on the left end unless only the right end matches; PASS when no
\* tile is playable) is accepted by the reducer when applied to that state, so
\* a bot's turn always advances the turn or ends the round and a bot never
\* stalls the game.
C32_BotProgress ==
    /\ [](BotToMove(state) =>
            /\ BotDriverActive(state)
            /\ LET botId == state.currentTurn
                   botHand == state.hands[botId]
                   playable == getPlayableTiles(botHand, state.boardEnds)
                   t == BotDispatch(state)
               IN /\ t # state
                  /\ \/ RoundOver(t)
                     \/ /\ t.phase = "playing"
                        /\ t.currentTurn = NextInOrder(state)
                        /\ t.currentTurn # botId
                  /\ playable = <<>> => PassLegal(state, botId) /\ t = PASS(state, botId)
                  /\ playable # <<>> =>
                         LET tile == BotTile(state, botHand)
                             end == BotEnd(tile, state.boardEnds)
                         IN /\ PlayLegal(state, botId, tile.id, end)
                            /\ t = PLAY_TILE(state, botId, tile.id, end)
                            /\ Len(t.hands[botId]) = Len(botHand) - 1
                            /\ IF state.boardEnds = NoEnds /\ state.roundNumber = 1
                               THEN tile.id = "6-6"
                               ELSE tile = playable[1]
                            /\ end = "right" <=>
                                   /\ ~canPlayTile(tile, state.boardEnds).left
                                   /\ canPlayTile(tile, state.boardEnds).right)
    /\ \A b \in BotIds :
           (BotToMove(state) /\ state.currentTurn = b) ~> ~(BotToMove(state) /\ state.currentTurn = b)

\* a bot whose first playable tile fits the right end only; the driver names
\* the right end and the play is accepted
C32_Witness ==
    /\ BotToMove(state)
    /\ state.currentTurn \in DOMAIN state.hands
    /\ getPlayableTiles(state.hands[state.currentTurn], state.boardEnds) # <<>>
    /\ BotEnd(BotTile(state, state.hands[state.currentTurn]), state.boardEnds) = "right"
    /\ BotDispatch(state) # state
    /\ BotDispatch(state).phase = "playing"

\* the known players that are on no team
Spectators(s) == {p \in PlayerIds(s) : TeamsOf(s, p) = {}}
\* the id has no team, no seat, no hand and no turn
Unseated(s, id) ==
    /\ TeamsOf(s, id) = {}
    /\ id \notin DOMAIN s.seats
    /\ id \notin DOMAIN s.hands
    /\ ~Includes(s.turnOrder, id)
    /\ s.currentTurn # id
    /\ s.roundStarter # id

\* C33 - a human who first joins while phase is not lobby is a spectator: the
\* accepted PLAYER_JOINED adds them to players (and records their secret) but
\* leaves teams, seats, hands, turnOrder, currentTurn, bots and scores
\* unchanged, and they are given no team, seat or hand by any later NEW_ROUND
\* or START_GAME until a RESET_GAME.
C33_LateJoinSpectates ==
    /\ [](state.phase # "lobby" =>
            \* the join adds the player and the secret and nothing else
            /\ \A id \in FreshIds(state), secret \in Secrets \cup {NULL} :
                   (NewHuman(state, id, secret) /\ connectedCount(state) < TOTAL_PLAYERS) =>
                       LET t == PLAYER_JOINED(state, id, secret)
                       IN /\ t = [state EXCEPT
                                     !.players = Append(state.players,
                                                        [id |-> id, isHost |-> (Len(state.players) = 0),
                                                         connected |-> TRUE]),
                                     !.sessions = IF secret # NULL THEN Put(state.sessions, secret, id)
                                                  ELSE state.sessions]
                          /\ t.teams = state.teams /\ t.seats = state.seats
                          /\ t.hands = state.hands /\ t.turnOrder = state.turnOrder
                          /\ t.currentTurn = state.currentTurn /\ t.bots = state.bots
                          /\ t.scores = state.scores
                          /\ id \in Spectators(t) /\ Unseated(t, id)
                          /\ \A u \in DealResults(t) : Unseated(u, id)
            \* a spectator stays one through every deal and every other action
            /\ \A p \in Spectators(state) :
                   /\ Unseated(state, p)
                   /\ \A u \in DealResults(state) : Unseated(u, p)
                   /\ \A u \in NoDealResults(state) : Unseated(u, p))
    /\ [][(state.phase # "lobby" /\ state'.phase # "lobby") =>
               \A p \in Spectators(state) : Unseated(state', p)]_vars

\* between two rounds a connected human who joined after the deal is on no
\* team, and the next deal leaves them without a seat and a hand
C33_Witness ==
    /\ state.phase = "round_end"
    /\ \E p \in Spectators(state) :
           /\ p \in ConnectedNow(state)
           /\ Unseated(state, p)
           /\ \E u \in DealResults(state) :
                  u.phase = "playing" /\ u.roundNumber = state.roundNumber + 1 /\ Unseated(u, p)

\* C34 - the board is always a well-formed chain: reading each board tile with
\* its flipped flag applied (shown faces are right,left when flipped,
\* left,right otherwise), the right face of board[i] equals the left face of
\* board[i+1] for every adjacent pair, boardEnds.left equals the left face of
\* board[0] and boardEnds.right equals the right face of the last tile;
\* boardEnds is absent exactly when the board is empty.
C34_BoardChain ==
    /\ state.boardEnds = NoEnds <=> state.board = <<>>
    /\ \A i \in 1..(Len(state.board) - 1) :
           displayRight(state.board[i]) = displayLeft(state.board[i + 1])
    /\ state.board # <<>> =>
           /\ state.boardEnds.left = displayLeft(state.board[1])
           /\ state.boardEnds.right = displayRight(state.board[Len(state.board)])
    \* every accepted play keeps the chain
    /\ \A t \in AcceptedPlays(state) :
           /\ t.boardEnds # NoEnds /\ Len(t.board) = Len(state.board) + 1
           /\ \A i \in 1..(Len(t.board) - 1) :
                  displayRight(t.board[i]) = displayLeft(t.board[i + 1])
           /\ t.boardEnds.left = displayLeft(t.board[1])
           /\ t.boardEnds.right = displayRight(t.board[Len(t.board)])

\* a chain grown on both ends that holds a turned tile on each side of the
\* opening tile
C34_Witness ==
    /\ Len(state.board) >= 5
    /\ \E i \in 1..state.centerIndex : state.board[i].flipped
    /\ \E i \in (state.centerIndex + 2)..Len(state.board) : state.board[i].flipped
    /\ \E i \in 1..Len(state.board) :
           ~state.board[i].flipped /\ state.board[i].tile.left # state.board[i].tile.right
    /\ state.boardEnds.left = displayLeft(state.board[1])
    /\ state.boardEnds.right = displayRight(state.board[Len(state.board)])

\* the (tile, end) pairs whose PLAY_TILE by id the reducer accepts in s
AcceptedPlaysOf(s, id) ==
    {x \in TileIds \X Ends : PLAY_TILE(s, id, x[1], x[2]) # s}
\* the reducer accepts a PASS by id in s
PassAccepted(s, id) == PASS(s, id) # s

\* C35 - no stuck turn: in every reachable state with phase = playing (valid
\* 28-tile shuffles), the currentTurn player has at least one action the
\* reducer accepts, either a PLAY_TILE of some tile in their hand or a PASS,
\* and never both a legal PASS and a legal play; this includes the round-1
\* opening, where only the 6-6 may be played and PASS is refused.
C35_NoStuckTurn ==
    state.phase = "playing" =>
        /\ state.currentTurn # NULL
        /\ state.currentTurn \in DOMAIN state.hands
        /\ state.hands[state.currentTurn] # <<>>
        /\ AcceptedPlaysOf(state, state.currentTurn) # {} \/ PassAccepted(state, state.currentTurn)
        /\ ~(AcceptedPlaysOf(state, state.currentTurn) # {} /\ PassAccepted(state, state.currentTurn))
        /\ \A x \in AcceptedPlaysOf(state, state.currentTurn) :
               HoldsTile(state, state.currentTurn, x[1])
        /\ (state.roundNumber = 1 /\ state.board = <<>>) =>
               /\ AcceptedPlaysOf(state, state.currentTurn) = {"6-6"} \X Ends
               /\ ~PassAccepted(state, state.currentTurn)

\* the opening of round 1: the player to move holds seven tiles, only the
\* 6-6 is accepted and a PASS is refused
C35_Witness ==
    /\ state.phase = "playing"
    /\ state.roundNumber = 1
    /\ state.board = <<>>
    /\ state.currentTurn \in DOMAIN state.hands
    /\ Len(state.hands[state.currentTurn]) = TILES_PER_HAND
    /\ AcceptedPlaysOf(state, state.currentTurn) = {"6-6"} \X Ends
    /\ ~PassAccepted(state, state.currentTurn)

\* C36 - every round terminates: from any reachable state with phase =
\* playing, if the player whose turn it is always eventually submits an
\* accepted PLAY_TILE or PASS (fairness on the current player) and no
\* RESET_GAME occurs, the phase eventually becomes round_end or game_over,
\* after at most 28 accepted plays with never more than 3 accepted passes
\* between two plays.
C36_RoundTerminates ==
    \* the round is left; without a RESET_GAME it is left by its resolution
    /\ (state.phase = "playing") ~> (state.phase # "playing")
    /\ [][(state.phase = "playing" /\ state'.phase # "playing") =>
               \/ RoundOver(state') /\ state' \in Resolutions(state)
               \/ state' = RESET_GAME(state)]_vars
    \* every accepted play moves one of the 28 tiles to the board, and at most
    \* three passes are counted while the round goes on
    /\ [](/\ Len(state.board) <= Len(generateAllTiles)
          /\ state.phase = "playing" =>
                 /\ Len(state.board) + HandTotal(state, DOMAIN state.hands) = Len(generateAllTiles)
                 /\ state.consecutivePasses <= 3
                 /\ \A t \in AcceptedPlays(state) :
                        /\ Len(t.board) = Len(state.board) + 1
                        /\ HandTotal(t, DOMAIN t.hands) = HandTotal(state, DOMAIN state.hands) - 1
                        /\ t.consecutivePasses = 0
                 /\ \A t \in AcceptedPasses(state) :
                        /\ t.board = state.board /\ t.hands = state.hands
                        /\ t.consecutivePasses = state.consecutivePasses + 1
                        /\ t.consecutivePasses = 4 <=> RoundOver(t))

\* a blocked round: three passes are counted and the player to move has
\* nothing that fits, so the next accepted action ends the round
C36_Witness ==
    /\ state.phase = "playing"
    /\ state.consecutivePasses = 3
    /\ PassLegal(state, state.currentTurn)
    /\ AcceptedPlays(state) = {}
    /\ RoundOver(PASS(state, state.currentTurn))
    /\ Len(state.board) + HandTotal(state, DOMAIN state.hands) = Len(generateAllTiles)

\* C37 - connected-human cap: in every reachable state at most 4 entries of
\* players have connected = true, for every sequence of PLAYER_JOINED (new
\* IDs, re-joins of a known ID, and session migrations) and PLAYER_LEFT
\* actions.
C37_ConnectedCap == connectedCount(state) <= TOTAL_PLAYERS

\* C38 - from any reachable state with phase = round_end and at least one
\* connected human, START_GAME and NEW_ROUND given the same shuffled tiles
\* produce equal states: same teams, seats, bots, hands, turnOrder,
\* currentTurn, roundNumber, scores and roundStarter; re-running the bot fill
\* does not reseat anyone or change any bot ID.
C38_StartEqualsNewRound ==
    (state.phase = "round_end" /\ connectedCount(state) >= 1) =>
        /\ fillBotsAndAssignSeats(state) = state
        /\ \A sh \in AllShuffles :
               LET t == START_GAME(state, sh)
                   u == NEW_ROUND(state, sh)
               IN /\ t = u
                  /\ t.teams = u.teams /\ t.seats = u.seats /\ t.bots = u.bots
                  /\ t.hands = u.hands /\ t.turnOrder = u.turnOrder
                  /\ t.currentTurn = u.currentTurn /\ t.roundNumber = u.roundNumber
                  /\ t.scores = u.scores /\ t.roundStarter = u.roundStarter
                  /\ t.teams = state.teams /\ t.seats = state.seats /\ t.bots = state.bots
                  /\ t.phase = "playing" /\ t.roundNumber = state.roundNumber + 1

\* between two rounds at a table with bots and a connected human: either
\* action deals the second round
C38_Witness ==
    /\ state.phase = "round_end"
    /\ connectedCount(state) >= 1
    /\ Cardinality(DOMAIN state.bots) >= 2
    /\ \E sh \in AllShuffles :
           /\ START_GAME(state, sh).phase = "playing"
           /\ START_GAME(state, sh) = NEW_ROUND(state, sh)
           /\ START_GAME(state, sh).roundNumber = 2
           /\ START_GAME(state, sh).bots = state.bots

\* the states one START_GAME or NEW_ROUND of some client leads to
Dealt(s) == DealResults(s) \ {s}

\* C39 - duplicate and racing actions are harmless: when the same PLAY_TILE,
\* PASS, START_GAME or NEW_ROUND action is applied twice in a row, or two
\* clients race START_GAME / NEW_ROUND with different shuffles, only the first
\* is applied and the second returns the state unchanged; no tile is played
\* twice, no turn is skipped and no round is dealt twice.
C39_DuplicatesHarmless ==
    \* the same action twice
    /\ \A p \in Actors(state), tileId \in TileIds, end \in Ends :
           LET t == PLAY_TILE(state, p, tileId, end)
           IN /\ PLAY_TILE(t, p, tileId, end) = t
              /\ Len(t.board) <= Len(state.board) + 1
              /\ t # state => \A e \in Ends : PLAY_TILE(t, p, tileId, e) = t
    /\ \A p \in Actors(state) :
           LET t == PASS(state, p)
           IN /\ PASS(t, p) = t
              /\ t.consecutivePasses <= state.consecutivePasses + 1
              /\ (t # state /\ t.phase = "playing") => t.currentTurn = NextInOrder(state)
    /\ \A sh \in AllShuffles :
           /\ START_GAME(START_GAME(state, sh), sh) = START_GAME(state, sh)
           /\ NEW_ROUND(NEW_ROUND(state, sh), sh) = NEW_ROUND(state, sh)
    \* two clients deal at once: the deal that comes second is refused
    /\ \A t \in Dealt(state) :
           /\ t.phase = "playing"
           /\ t.roundNumber = IF state.phase = "lobby" THEN 1 ELSE state.roundNumber + 1
           /\ \A u \in DealResults(t) : u = t

\* between two rounds two clients send NEW_ROUND and START_GAME with
\* different shuffles: the first deals round 2, the second changes nothing
C39_Witness ==
    /\ state.phase = "round_end"
    /\ \E sh1 \in AllShuffles, sh2 \in AllShuffles :
           /\ sh1 # sh2
           /\ NEW_ROUND(state, sh1) # state
           /\ NEW_ROUND(state, sh1) # NEW_ROUND(state, sh2)
           /\ START_GAME(NEW_ROUND(state, sh1), sh2) = NEW_ROUND(state, sh1)
           /\ NEW_ROUND(NEW_ROUND(state, sh1), sh2) = NEW_ROUND(state, sh1)

\* cumulative scores a match can stand at before its last round
ScoreSamples == {0, 100, 199}
\* exactly one team has reached the target, and it is the winner of the last
\* round
OneWinner(s) ==
    LET w == s.lastRoundResult.winner
    IN /\ s.lastRoundResult # NoResult
       /\ s.scores[w] >= s.targetScore
       /\ s.scores[OtherTeam(w)] < s.targetScore
       /\ Cardinality({team \in Teams : s.scores[team] >= s.targetScore}) = 1
       /\ GameOverWinner(s) = w

\* C40 - unique game winner: whenever phase = game_over exactly one team's
\* cumulative score is >= targetScore, that team is lastRoundResult.winner,
\* and the other team's score is below targetScore.
C40_UniqueWinner ==
    /\ state.phase = "game_over" => OneWinner(state)
    /\ \A t \in Resolutions(state) : t.phase = "game_over" => OneWinner(t)
    \* the same resolution from every standing of the two teams below the target
    /\ \A x \in ScoreSamples, y \in ScoreSamples :
           \A t \in Resolutions(WithScore(WithScore(state, "a", x), "b", y)) :
               /\ t.phase = "game_over" => OneWinner(t)
               /\ t.scores[OtherTeam(t.lastRoundResult.winner)]
                      = (IF t.lastRoundResult.winner = "a" THEN y ELSE x)
    \* nothing but RESET_GAME changes the scores or the result of a finished match
    /\ state.phase = "game_over" =>
           \A t \in DealResults(state) \cup NoDealResults(state) :
               t.scores = state.scores /\ t.lastRoundResult = state.lastRoundResult

\* a match that ended on a blocked round: the team with fewer pips reached
\* the target score, the other team is below it
C40_Witness ==
    /\ state.phase = "game_over"
    /\ state.lastRoundResult.reason = "tranque"
    /\ state.lastRoundResult.pointsAwarded > 0
    /\ OneWinner(state)
    /\ state.scores[state.lastRoundResult.winner] - state.lastRoundResult.pointsAwarded
           < state.targetScore

====
